---- MODULE Spec2Model ----
(***************************************************************************)
(* A model of the serverless handlers of the marketplace backend: users    *)
(* (register, login, profile), storefronts, catalog items, reviews and     *)
(* orders, each an HTTP-style handler over DynamoDB tables.                *)
(*                                                                         *)
(* A table is the set of its records.  A handler is an operator from the   *)
(* store and a request to its response and the tables it wrote; an action  *)
(* applies one handler to one request.  The request also carries what the  *)
(* environment decides during the call: whether each DynamoDB command      *)
(* (index query, scan, get, put, update) succeeds or throws.               *)
(*                                                                         *)
(* Strings the code computes on (emails, passwords, comments) are          *)
(* sequences of characters; <<>> is the empty or missing string, which     *)
(* JavaScript's !x treats alike.  Other missing fields are "".             *)
(***************************************************************************)
EXTENDS Integers, Sequences, FiniteSets, TLC

VARIABLES
  users,        \* USERS_TABLE, keyed by userId
  storefronts,  \* STOREFRONTS_TABLE, keyed by storeId
  items,        \* ITEMS_TABLE, keyed by id
  reviews,      \* REVIEWS_TABLE, keyed by reviewId
  orders,       \* ORDERS_TABLE, keyed by orderId
  tokens,       \* payloads of the tokens jwt.sign has issued with JWT_SECRET
  now,          \* the clock new Date() reads
  req,          \* the request handled last
  resp,         \* the response returned last
  inflight,     \* requests between two awaits (interleaved handlers only)
  overlap,      \* history: two interleaved requests were in flight together
  legacy        \* TABLE_NAME ("ItemsTable") of the readme's items handler, keyed by id

vars == <<users, storefronts, items, reviews, orders, tokens, now, req, resp,
          inflight, overlap, legacy>>

tables == <<users, storefronts, items, reviews, orders, legacy>>

----------------------------------------------------------------------------
(* Bounds of the model. *)

MaxUsers == 2

MaxStorefronts == 2

MaxItems == 2

MaxReviews == 3

MaxOrders == 2

MaxInflight == 2

LookupSize == 2

\* The last instant of the clock.
MaxTime == 3

\* The most line-item lookups one get-orders request has in flight.
MaxLookups == 3

----------------------------------------------------------------------------
(* JavaScript and library primitives. *)

\* !x for a string field: undefined and "" are both falsy.
Falsy(x) == x = ""

\* !x for a string held as a sequence of characters.
FalsySeq(s) == Len(s) = 0

\* String.prototype.toLowerCase, on one character and on a string.
LowerChar(c) ==
  CASE c = "A" -> "a"
    [] c = "B" -> "b"
    [] OTHER -> c

\* A string left as it was given.
toLowerCase_Identity(s) == s

toLowerCase(s) == [i \in 1..Len(s) |-> LowerChar(s[i])]

\* A value of a JSON body field that the code treats as a number: absent,
\* a number, or a string (a sequence of characters).  Numbers are whole
\* numbers here, and the strings hold no decimal point.
Undefined == [t |-> "undefined"]

Num(v) == [t |-> "num", v |-> v]

Str(x) == [t |-> "str", s |-> x]

NaN == [t |-> "nan"]

\* String.prototype.trim: leading and trailing spaces removed.
RECURSIVE trimStart(_)
trimStart(s) ==
  IF Len(s) > 0 /\ Head(s) = " " THEN trimStart(Tail(s)) ELSE s

RECURSIVE trimEnd(_)
trimEnd(s) ==
  IF Len(s) > 0 /\ s[Len(s)] = " " THEN trimEnd(SubSeq(s, 1, Len(s) - 1)) ELSE s

trim(s) == trimEnd(trimStart(s))

Digits == <<"0", "1", "2", "3", "4", "5", "6", "7", "8", "9">>

IsDigit(c) == \E i \in DOMAIN Digits : Digits[i] = c

DigitValue(c) == (CHOOSE i \in DOMAIN Digits : Digits[i] = c) - 1

\* The number of digits a string starts with.
RECURSIVE digitPrefixLen(_)
digitPrefixLen(s) ==
  IF Len(s) > 0 /\ IsDigit(Head(s)) THEN 1 + digitPrefixLen(Tail(s)) ELSE 0

\* The value of a string of digits.
RECURSIVE digitsValue(_)
digitsValue(s) ==
  IF Len(s) = 0 THEN 0
  ELSE 10 * digitsValue(SubSeq(s, 1, Len(s) - 1)) + DigitValue(s[Len(s)])

\* The longest numeric prefix of a string, after leading spaces: its value
\* (NaN when there is none) and whether it is the whole string.
numericPrefix(s) ==
  LET t == trimStart(s)
      negative == Len(t) > 0 /\ Head(t) = "-"
      body == IF negative THEN Tail(t) ELSE t
      n == digitPrefixLen(body)
      v == digitsValue(SubSeq(body, 1, n))
  IN [value |-> IF n = 0 THEN NaN ELSE Num(IF negative THEN 0 - v ELSE v),
      whole |-> n = Len(body)]

\* The conversion to a number that <, <= and > apply to an operand: a
\* string converts when all of it (spaces at its ends aside) is a number,
\* the empty string converts to 0, undefined converts to NaN.
toNumber(x) ==
  IF x.t = "num" THEN x
  ELSE IF x.t # "str" THEN NaN
  ELSE IF Len(trim(x.s)) = 0 THEN Num(0)
  ELSE IF numericPrefix(trim(x.s)).whole THEN numericPrefix(trim(x.s)).value
  ELSE NaN

\* x < n, x <= n and x > n: false when x does not convert to a number.
JsLess(x, n) == toNumber(x).t = "num" /\ toNumber(x).v < n

JsLessEq(x, n) == toNumber(x).t = "num" /\ toNumber(x).v <= n

JsGreater(x, n) == toNumber(x).t = "num" /\ toNumber(x).v > n

\* parseInt(x) and parseFloat(x), on the values above: a string is parsed
\* as far as it is a number, and what follows is ignored.
parseNumber(x) ==
  IF x.t = "num" THEN x
  ELSE IF x.t = "str" THEN numericPrefix(x.s).value
  ELSE NaN

isNaN(x) == x.t = "nan"

\* bcrypt.hash(password, rounds): the stored form of a password.
bcryptHash(password) == <<"$2a$">> \o password

\* bcrypt.compare(password, hash).
bcryptCompare(password, hash) == hash = bcryptHash(password)

\* A slip: the whole record is returned, password included.
WithoutField_Keep(r, f) == r

\* const { password: _, ...userWithoutPassword } = user
WithoutField(r, f) == [k \in DOMAIN r \ {f} |-> r[k]]

\* uuidv4(): an id no record of the table has.  Records are never deleted
\* and ids are handed out in order, so the next one is the count plus one.
uuidv4(table) == Cardinality(table) + 1

----------------------------------------------------------------------------
(* DynamoDB commands, on a table as the set of its records. *)

\* GetCommand({Key: {[key]: value}}): the record with that key, if any.
\* A get that returns a record whatever the key.
GetItem_Any(table, key, value) == table

GetItem(table, key, value) == {r \in table : r[key] = value}

\* A put that reports success and stores nothing.
PutItem_Lost(table, key, item) == table

\* A put that keeps the record it should replace.
PutItem_Append(table, key, item) == table \cup {item}

\* PutCommand({Item}): the record replaces any record with the same key.
PutItem(table, key, item) == {r \in table : r[key] # item[key]} \cup {item}

\* attr = :value in a key condition or a filter expression: false on a
\* record that lacks the attribute.
AttrEquals(r, attr, value) == attr \in DOMAIN r /\ r[attr] = value

\* QueryCommand({IndexName, KeyConditionExpression: "keyAttr = :v",
\* FilterExpression}): the index partition of keyValue, then the filter.
\* filter is a set of <<attr, value>> equalities, all of which must hold.
QueryIndex(table, keyAttr, keyValue, filter) ==
  LET partition == {r \in table : AttrEquals(r, keyAttr, keyValue)}
  IN {r \in partition : \A f \in filter : AttrEquals(r, f[1], f[2])}

\* ScanCommand({FilterExpression}): every record, then the filter.
ScanTable(table, filter) ==
  {r \in table : \A f \in filter : AttrEquals(r, f[1], f[2])}

\* An update that writes nothing.
UpdateItem_NoOp(table, key, value, attr, v) == table

\* UpdateCommand({Key, UpdateExpression: "SET attr = :v"}): sets the
\* attribute of the record with that key, creating the record if absent.
UpdateItem(table, key, value, attr, v) ==
  IF \E r \in table : r[key] = value
  THEN {IF r[key] = value
        THEN [k \in DOMAIN r \cup {attr} |-> IF k = attr THEN v ELSE r[k]]
        ELSE r : r \in table}
  ELSE table \cup {[k \in {key, attr} |-> IF k = attr THEN v ELSE value]}

----------------------------------------------------------------------------
(* Responses and tokens. *)

corsHeaders ==
  [AllowOrigin |-> "*",
   AllowHeaders |-> "Content-Type,Authorization,X-Requested-With",
   AllowMethods |-> "GET,POST,PUT,DELETE,OPTIONS",
   MaxAge |-> "86400"]

sendResponse(statusCode, body) ==
  [statusCode |-> statusCode, headers |-> corsHeaders, body |-> body]

\* The catch of exports.handler: sendResponse(500, {error: error.message}).
handlerCatch(message) == sendResponse(500, [error |-> message])

\* A token that names every account a seller.
jwtSign_AllSellers(userId, email, role) ==
  [userId |-> userId, email |-> email, role |-> "seller"]

\* jwt.sign({userId, email, role}, JWT_SECRET, {expiresIn: "7d"}).
jwtSign(userId, email, role) ==
  [userId |-> userId, email |-> email, role |-> role]

NoPayload == [userId |-> 0, email |-> <<>>, role |-> ""]

\* The Authorization headers a request may carry: none, one without the
\* Bearer prefix, a token not signed with JWT_SECRET, or an issued token,
\* expired or not.
AuthHeaders ==
  {[kind |-> k, payload |-> NoPayload] : k \in {"missing", "noprefix", "badsig"}}
  \cup {[kind |-> k, payload |-> t] : k \in {"expired", "valid"}, t \in tokens}

\* verifyToken(event): the payload, or null.
Null == [null |-> TRUE]

\* A verification that does not look at the expiry of the token.
verifyToken_IgnoreExpiry(auth) ==
  IF auth.kind \in {"expired", "valid"} THEN auth.payload ELSE Null

verifyToken(auth) ==
  IF auth.kind \in {"missing", "noprefix"} THEN Null
  ELSE IF auth.kind = "valid" THEN auth.payload
  ELSE Null

----------------------------------------------------------------------------
(* The users handler: register, login, profile. *)

\* What a handler leaves behind: its response and the tables it wrote.
AuthOutcome(response, newUsers, newTokens) ==
  [response |-> response, users |-> newUsers, tokens |-> newTokens]

\* A lookup that never finds the email.
emailTaken_Never(r) == FALSE

\* The EmailIndex query of register and its test: an account holds the
\* email.  A query that throws is logged and counts as nothing found.
emailTaken(r) ==
  r.indexOk /\ QueryIndex(users, "email", toLowerCase(r.email), {}) # {}

\* handleRegister up to its lookup: the response, or Null when the request
\* goes on to its insert.
registerChecks(r) ==
  IF ~r.bodyOk THEN handlerCatch("Unexpected token")
  ELSE IF Falsy(r.name) \/ FalsySeq(r.email) \/ FalsySeq(r.password) \/ Falsy(r.role)
  THEN sendResponse(400,
         [error |-> "Missing required fields: name, email, password, role"])
  ELSE IF r.role \notin {"buyer", "seller"}
  THEN sendResponse(400, [error |-> "Role must be either buyer or seller"])
  ELSE IF Len(r.password) < 6
  THEN sendResponse(400, [error |-> "Password must be at least 6 characters"])
  ELSE IF emailTaken(r)
  THEN sendResponse(409, [error |-> "User with this email already exists"])
  ELSE Null

\* An insert that signs the token before the put and hands it out in the
\* error response too.
registerInsert_SignFirst(r) ==
  LET userId == uuidv4(users)
      user == [userId |-> userId, email |-> toLowerCase(r.email),
               name |-> r.name, password |-> bcryptHash(r.password),
               role |-> r.role, hasStorefront |-> FALSE, createdAt |-> now]
      token == jwtSign(userId, user.email, r.role)
  IN IF ~r.putOk
     THEN AuthOutcome(sendResponse(500,
            [error |-> "Failed to create user", token |-> token]),
            users, tokens \cup {token})
     ELSE AuthOutcome(sendResponse(201,
            [message |-> "User created successfully",
             user |-> WithoutField(user, "password"),
             token |-> token]),
            PutItem(users, "userId", user), tokens \cup {token})

\* handleRegister from the hash of the password on: the insert, the token
\* and the response.
registerInsert(r) ==
  LET userId == uuidv4(users)
      user == [userId |-> userId,
               email |-> toLowerCase(r.email),
               name |-> r.name,
               password |-> bcryptHash(r.password),
               role |-> r.role,
               hasStorefront |-> FALSE,
               createdAt |-> now]
      token == jwtSign(userId, user.email, r.role)
  IN IF ~r.putOk
     THEN AuthOutcome(sendResponse(500, [error |-> "Failed to create user"]),
                      users, tokens)
     ELSE AuthOutcome(sendResponse(201,
            [message |-> "User created successfully",
             user |-> WithoutField(user, "password"),
             token |-> token]),
            PutItem(users, "userId", user), tokens \cup {token})

\* A register that inserts before it answers the conflict.
handleRegister_InsertFirst(r) ==
  IF registerChecks(r) # Null /\ registerChecks(r).statusCode # 409
  THEN AuthOutcome(registerChecks(r), users, tokens)
  ELSE AuthOutcome(IF registerChecks(r) # Null THEN registerChecks(r)
                   ELSE registerInsert(r).response,
                   registerInsert(r).users, registerInsert(r).tokens)

handleRegister(r) ==
  IF registerChecks(r) # Null
  THEN AuthOutcome(registerChecks(r), users, tokens)
  ELSE registerInsert(r)

\* The accounts the EmailIndex query of login returns; Items[0] is one of them.
LoginCandidates(r) == QueryIndex(users, "email", toLowerCase(r.email), {})

handleLogin(r, user) ==
  IF ~r.bodyOk THEN AuthOutcome(handlerCatch("Unexpected token"), users, tokens)
  ELSE IF FalsySeq(r.email) \/ FalsySeq(r.password)
  THEN AuthOutcome(sendResponse(400,
         [error |-> "Email and password are required"]), users, tokens)
  ELSE IF ~r.indexOk
  THEN AuthOutcome(sendResponse(500, [error |-> "Login failed"]), users, tokens)
  ELSE IF LoginCandidates(r) = {}
  THEN AuthOutcome(sendResponse(401,
         [error |-> "Invalid email or password"]), users, tokens)
  ELSE IF ~bcryptCompare(r.password, user.password)
  THEN AuthOutcome(sendResponse(401,
         [error |-> "Invalid email or password"]), users, tokens)
  ELSE LET token == jwtSign(user.userId, user.email, user.role)
       IN AuthOutcome(sendResponse(200,
            [message |-> "Login successful",
             user |-> WithoutField(user, "password"),
             token |-> token]),
            users, tokens \cup {token})

handleGetProfile(r) ==
  IF r.auth.kind \in {"missing", "noprefix"}
  THEN AuthOutcome(sendResponse(401,
         [error |-> "Unauthorized: No token provided"]), users, tokens)
  ELSE IF r.auth.kind # "valid"  \* JsonWebTokenError or TokenExpiredError
  THEN AuthOutcome(sendResponse(401,
         [error |-> "Invalid or expired token"]), users, tokens)
  ELSE IF ~r.getOk
  THEN AuthOutcome(sendResponse(500,
         [error |-> "Failed to get profile"]), users, tokens)
  ELSE LET found == GetItem(users, "userId", r.auth.payload.userId)
       IN IF found = {}
          THEN AuthOutcome(sendResponse(404, [error |-> "User not found"]),
                           users, tokens)
          ELSE AuthOutcome(sendResponse(200,
                 [user |-> WithoutField(CHOOSE u \in found : TRUE, "password")]),
                 users, tokens)

----------------------------------------------------------------------------
(* Requests to the users handler. *)

Emails == {<<"a", "b">>, <<"A", "B">>, <<"c", "d">>}

GoodPasswords == {<<"s", "e", "c", "r", "e", "t">>, <<"h", "u", "n", "t", "e", "r">>}

ShortPassword == <<"a", "b", "c">>

Roles == {"buyer", "seller"}

\* Register bodies: the well-formed ones, and each of them with one fault.
RegisterRequests ==
  LET good == [op : {"register"}, bodyOk : {TRUE}, name : {"Ann"},
               email : Emails, password : GoodPasswords, role : Roles,
               indexOk : BOOLEAN, putOk : BOOLEAN]
      base == [op |-> "register", bodyOk |-> TRUE, name |-> "Ann",
               email |-> <<"a", "b">>,
               password |-> <<"s", "e", "c", "r", "e", "t">>,
               role |-> "buyer", indexOk |-> TRUE, putOk |-> TRUE]
  IN good \cup {[base EXCEPT !.bodyOk = FALSE],
                [base EXCEPT !.name = ""],
                [base EXCEPT !.email = <<>>],
                [base EXCEPT !.password = <<>>],
                [base EXCEPT !.password = ShortPassword],
                [base EXCEPT !.role = ""],
                [base EXCEPT !.role = "admin"]}

LoginRequests ==
  LET good == [op : {"login"}, bodyOk : {TRUE}, email : Emails,
               password : GoodPasswords \cup {ShortPassword},
               indexOk : BOOLEAN]
      base == [op |-> "login", bodyOk |-> TRUE, email |-> <<"a", "b">>,
               password |-> <<"s", "e", "c", "r", "e", "t">>, indexOk |-> TRUE]
  IN good \cup {[base EXCEPT !.bodyOk = FALSE],
                [base EXCEPT !.email = <<>>],
                [base EXCEPT !.password = <<>>]}

ProfileRequests ==
  [op : {"profile"}, auth : AuthHeaders, getOk : BOOLEAN]

----------------------------------------------------------------------------
(* Actions of the users handler. *)

Register(r) ==
  LET out == handleRegister(r)
  IN /\ out.users = users \/ Cardinality(users) < MaxUsers
     /\ req' = r
     /\ resp' = out.response
     /\ users' = out.users
     /\ tokens' = out.tokens
     /\ UNCHANGED <<storefronts, items, reviews, orders, now, inflight, overlap, legacy>>

Login(r) ==
  \E user \in IF LoginCandidates(r) = {} THEN {Null} ELSE LoginCandidates(r) :
    LET out == handleLogin(r, user)
    IN /\ req' = r
       /\ resp' = out.response
       /\ users' = out.users
       /\ tokens' = out.tokens
       /\ UNCHANGED <<storefronts, items, reviews, orders, now, inflight, overlap, legacy>>

GetProfile(r) ==
  LET out == handleGetProfile(r)
  IN /\ req' = r
     /\ resp' = out.response
     /\ users' = out.users
     /\ tokens' = out.tokens
     /\ UNCHANGED <<storefronts, items, reviews, orders, now, inflight, overlap, legacy>>

NoRequest == [op |-> "none"]

NoResponse == [statusCode |-> 0, headers |-> corsHeaders, body |-> [message |-> "none"]]

\* The store before any request: every table empty, no token issued.
InitAuth ==
  /\ users = {}
  /\ storefronts = {}
  /\ items = {}
  /\ reviews = {}
  /\ orders = {}
  /\ tokens = {}
  /\ now = 1
  /\ req = NoRequest
  /\ resp = NoResponse
  /\ inflight = {}
  /\ overlap = FALSE
  /\ legacy = {}

NextAuth ==
  \/ \E r \in RegisterRequests : Register(r)
  \/ \E r \in LoginRequests : Login(r)
  \/ \E r \in ProfileRequests : GetProfile(r)

SpecAuth == InitAuth /\ [][NextAuth]_vars

----------------------------------------------------------------------------
(* The storefronts handler. *)

DefaultStoreImage == "photo-1441986300917-64674bd600d8?w=1400"

StoreOutcome(response, newStorefronts, newUsers) ==
  [response |-> response, storefronts |-> newStorefronts, users |-> newUsers]

handleCreateStorefront(r) ==
  LET user == verifyToken(r.auth)
  IN IF user = Null
     THEN StoreOutcome(sendResponse(401,
            [error |-> "Unauthorized: Invalid or missing token"]),
            storefronts, users)
     ELSE IF user.role # "seller"
     THEN StoreOutcome(sendResponse(403,
            [error |-> "Forbidden: Only sellers can create storefronts"]),
            storefronts, users)
     ELSE IF ~r.bodyOk
     THEN StoreOutcome(handlerCatch("Unexpected token"), storefronts, users)
     ELSE IF Falsy(r.name) \/ Falsy(r.description) \/ Falsy(r.category)
     THEN StoreOutcome(sendResponse(400,
            [error |-> "Missing required fields: name, description, category"]),
            storefronts, users)
     ELSE
       LET storeId == uuidv4(storefronts)
           storefront ==
             [storeId |-> storeId,
              name |-> r.name,
              description |-> r.description,
              category |-> r.category,
              image |-> IF Falsy(r.image) THEN DefaultStoreImage ELSE r.image,
              owner |-> user.userId,
              ownerName |-> user.email,
              items |-> <<>>,
              createdAt |-> now,
              updatedAt |-> now]
           failed == sendResponse(500, [error |-> "Failed to create storefront"])
       IN IF ~r.putOk
          THEN StoreOutcome(failed, storefronts, users)
          ELSE IF ~r.updateOk  \* the storefront is stored, the flag is not set
          THEN StoreOutcome(failed,
                 PutItem(storefronts, "storeId", storefront), users)
          ELSE StoreOutcome(sendResponse(201,
                 [message |-> "Storefront created successfully",
                  storefront |-> storefront]),
                 PutItem(storefronts, "storeId", storefront),
                 UpdateItem(users, "userId", user.userId, "hasStorefront", TRUE))

handleGetStorefront(r) ==
  IF r.storeId = 0
  THEN sendResponse(400, [error |-> "Missing storeId in path"])
  ELSE IF ~r.getOk
  THEN sendResponse(500, [error |-> "Failed to get storefront"])
  ELSE LET found == GetItem(storefronts, "storeId", r.storeId)
       IN IF found = {}
          THEN sendResponse(404, [error |-> "Storefront not found"])
          ELSE sendResponse(200, [storefront |-> CHOOSE f \in found : TRUE])

\* The lookup of handleGetMyStorefronts on its two paths.
StorefrontsByOwnerQuery(owner) == QueryIndex(storefronts, "owner", owner, {})

StorefrontsByOwnerScan(owner) == ScanTable(storefronts, {<<"owner", owner>>})

handleGetMyStorefronts(r) ==
  LET user == verifyToken(r.auth)
  IN IF user = Null
     THEN sendResponse(401, [error |-> "Unauthorized: Invalid or missing token"])
     ELSE IF user.role # "seller"
     THEN sendResponse(403,
            [error |-> "Forbidden: Only sellers can view their storefronts"])
     ELSE IF r.indexOk
     THEN sendResponse(200, [storefronts |-> StorefrontsByOwnerQuery(user.userId)])
     ELSE IF r.scanOk
     THEN sendResponse(200, [storefronts |-> StorefrontsByOwnerScan(user.userId)])
     ELSE sendResponse(500, [error |-> "Failed to get storefronts"])

handleListStorefronts(r) ==
  IF r.scanOk
  THEN sendResponse(200, [storefronts |-> ScanTable(storefronts, {})])
  ELSE sendResponse(500, [error |-> "Failed to list storefronts"])

----------------------------------------------------------------------------
(* Requests to and actions of the storefronts handler. *)

\* Create-storefront requests: the well-formed bodies under every
\* Authorization header, and under a valid one each body with one fault.
CreateStorefrontRequests ==
  LET good == [op : {"createStorefront"}, auth : AuthHeaders, bodyOk : {TRUE},
               name : {"Shop"}, description : {"Mugs"}, category : {"home"},
               image : {"", "shop.png"}, putOk : BOOLEAN, updateOk : BOOLEAN]
      base == {g \in good : g.auth.kind = "valid" /\ g.image = ""
                               /\ g.putOk /\ g.updateOk}
  IN good \cup {[g EXCEPT !.bodyOk = FALSE] : g \in base}
          \cup {[g EXCEPT !.name = ""] : g \in base}
          \cup {[g EXCEPT !.description = ""] : g \in base}
          \cup {[g EXCEPT !.category = ""] : g \in base}

StoreIds == 0..(MaxStorefronts + 1)

GetStorefrontRequests ==
  [op : {"getStorefront"}, storeId : StoreIds, getOk : BOOLEAN]

MyStorefrontsRequests ==
  [op : {"myStorefronts"}, auth : AuthHeaders, indexOk : BOOLEAN, scanOk : BOOLEAN]

ListStorefrontsRequests == [op : {"listStorefronts"}, scanOk : BOOLEAN]

CreateStorefront(r) ==
  LET out == handleCreateStorefront(r)
  IN /\ out.storefronts = storefronts \/ Cardinality(storefronts) < MaxStorefronts
     /\ req' = r
     /\ resp' = out.response
     /\ storefronts' = out.storefronts
     /\ users' = out.users
     /\ UNCHANGED <<items, reviews, orders, tokens, now, inflight, overlap, legacy>>

\* A handler that only reads: the response, and nothing written.
ReadOnly(r, response) ==
  /\ req' = r
  /\ resp' = response
  /\ UNCHANGED <<tables, tokens, now, inflight, overlap, legacy>>

GetStorefront(r) == ReadOnly(r, handleGetStorefront(r))

GetMyStorefronts(r) == ReadOnly(r, handleGetMyStorefronts(r))

ListStorefronts(r) == ReadOnly(r, handleListStorefronts(r))

\* The register requests that set the accounts up: a buyer and a seller.
SetupRegisterRequests ==
  {[op |-> "register", bodyOk |-> TRUE, name |-> "Ann", email |-> e[1],
    password |-> <<"s", "e", "c", "r", "e", "t">>, role |-> e[2],
    indexOk |-> TRUE, putOk |-> TRUE] :
     e \in {<<(<<"a", "b">>), "buyer">>, <<(<<"c", "d">>), "seller">>}}

\* Accounts registered (the put may fail), logged in, read and given a
\* storefront, under every token that was issued.
IssuedRequests ==
  SetupRegisterRequests
  \cup {[r EXCEPT !.putOk = FALSE] : r \in SetupRegisterRequests}
  \cup {[op |-> "login", bodyOk |-> TRUE, email |-> e,
          password |-> <<"s", "e", "c", "r", "e", "t">>, indexOk |-> TRUE] :
          e \in {<<"a", "b">>, <<"c", "d">>}}
  \cup {[op |-> "profile", auth |-> a, getOk |-> TRUE] : a \in AuthHeaders}
  \cup {[op |-> "createStorefront", auth |-> a, bodyOk |-> TRUE,
          name |-> "Shop", description |-> "Mugs", category |-> "home",
          image |-> "", putOk |-> ok, updateOk |-> TRUE] :
          a \in AuthHeaders, ok \in BOOLEAN}

NextIssued ==
  \/ \E r \in {x \in IssuedRequests : x.op = "register"} : Register(r)
  \/ \E r \in {x \in IssuedRequests : x.op = "login"} : Login(r)
  \/ \E r \in {x \in IssuedRequests : x.op = "profile"} : GetProfile(r)
  \/ \E r \in {x \in IssuedRequests : x.op = "createStorefront"} :
       CreateStorefront(r)

SpecIssued == InitAuth /\ [][NextIssued]_vars

NextStore ==
  \/ \E r \in SetupRegisterRequests : Register(r)
  \/ \E r \in CreateStorefrontRequests : CreateStorefront(r)
  \/ \E r \in GetStorefrontRequests : GetStorefront(r)
  \/ \E r \in MyStorefrontsRequests : GetMyStorefronts(r)
  \/ \E r \in ListStorefrontsRequests : ListStorefronts(r)

SpecStore == InitAuth /\ [][NextStore]_vars

----------------------------------------------------------------------------
(* The items handler. *)

DefaultItemImage == "photo-1441986300917-64674bd600d8?w=800"

ItemOutcome(response, newItems) == [response |-> response, items |-> newItems]

handleAddItem(r) ==
  IF ~r.bodyOk THEN ItemOutcome(handlerCatch("Unexpected token"), items)
  ELSE IF Falsy(r.name) \/ Falsy(r.description) \/ r.price = Undefined
          \/ Falsy(r.category) \/ r.storeId = 0
  THEN ItemOutcome(sendResponse(400,
         [error |-> "Missing required fields: name, description, price, category, storeId"]),
         items)
  ELSE LET priceNum == parseNumber(r.price)
       IN IF isNaN(priceNum) \/ priceNum.v < 0
          THEN ItemOutcome(sendResponse(400,
                 [error |-> "Price must be a valid positive number"]), items)
          ELSE
            LET item == [id |-> uuidv4(items),
                         storeId |-> r.storeId,
                         name |-> r.name,
                         description |-> r.description,
                         price |-> priceNum.v,
                         category |-> r.category,
                         image |-> IF Falsy(r.image) THEN DefaultItemImage
                                   ELSE r.image,
                         averageRating |-> 0,
                         reviews |-> <<>>,
                         createdAt |-> now,
                         updatedAt |-> now]
            IN IF ~r.putOk
               THEN ItemOutcome(sendResponse(500,
                      [error |-> "Failed to add item"]), items)
               ELSE ItemOutcome(sendResponse(201,
                      [message |-> "Item added successfully", item |-> item]),
                      PutItem(items, "id", item))

\* The lookup of handleGetItems on its two paths.
ItemsByStoreQuery(storeId) == QueryIndex(items, "storeId", storeId, {})

ItemsByStoreScan(storeId) == ScanTable(items, {<<"storeId", storeId>>})

handleGetItems(r) ==
  IF r.storeId = 0
  THEN sendResponse(400, [error |-> "Missing required query parameter: storeId"])
  ELSE IF r.indexOk
  THEN sendResponse(200, [items |-> ItemsByStoreQuery(r.storeId)])
  ELSE IF r.scanOk
  THEN sendResponse(200, [items |-> ItemsByStoreScan(r.storeId)])
  ELSE sendResponse(500, [error |-> "Failed to get items"])

----------------------------------------------------------------------------
(* The reviews handler. *)

\* reviews.sort((a, b) => new Date(b.createdAt) - new Date(a.createdAt)):
\* a stable sort, newest first.  insertNewestFirst puts x behind every
\* review that is not older than it.
RECURSIVE insertNewestFirst(_, _)
insertNewestFirst(sorted, x) ==
  IF sorted = <<>> THEN <<x>>
  ELSE IF Head(sorted).createdAt >= x.createdAt
       THEN <<Head(sorted)>> \o insertNewestFirst(Tail(sorted), x)
       ELSE <<x>> \o sorted

\* The list as DynamoDB returned it.
sortNewestFirst_Unsorted(list) == list

RECURSIVE sortNewestFirst(_)
sortNewestFirst(list) ==
  IF list = <<>> THEN <<>>
  ELSE insertNewestFirst(sortNewestFirst(SubSeq(list, 1, Len(list) - 1)),
                         list[Len(list)])

\* ratings.reduce((sum, r) => sum + r, 0)
RECURSIVE sumRatings(_)
sumRatings(list) ==
  IF list = <<>> THEN 0 ELSE Head(list).rating + sumRatings(Tail(list))

\* Math.round(averageRating * 10) / 10, given in tenths: the mean of the
\* ratings times ten, rounded to the nearest integer, halves upwards; 0
\* for no ratings.
\* The average cut off after its first decimal instead of rounded.
averageRatingTenths_Floor(list) ==
  IF Len(list) > 0 THEN (10 * sumRatings(list)) \div Len(list) ELSE 0

\* The aggregate the item record holds since add-item.
averageRatingTenths_Stored(list) == 0

averageRatingTenths(list) ==
  IF Len(list) > 0
  THEN (20 * sumRatings(list) + Len(list)) \div (2 * Len(list))
  ELSE 0

\* The orders in which DynamoDB may return the records of a result.
ResultOrders(set) ==
  {f \in [1..Cardinality(set) -> set] : \A i, j \in DOMAIN f : i # j => f[i] # f[j]}

\* The lookup of handleGetReviews on its two paths.
ReviewsByItemQuery(itemId) == QueryIndex(reviews, "itemId", itemId, {})

ReviewsByItemScan(itemId) == ScanTable(reviews, {<<"itemId", itemId>>})

\* The reviews handleGetReviews reads: the query's, or the scan's when the
\* query threw.  When the scan throws too there is no result.
ReviewsRead(r) ==
  IF r.indexOk THEN ReviewsByItemQuery(r.itemId)
  ELSE IF r.scanOk THEN ReviewsByItemScan(r.itemId)
  ELSE {}

\* result is the list the lookup returned, in the order DynamoDB gave it.
handleGetReviews(r, result) ==
  IF r.itemId = 0
  THEN sendResponse(400, [error |-> "itemId query parameter is required"])
  ELSE IF ~r.getOk
  THEN sendResponse(500, [error |-> "Failed to get reviews"])
  ELSE IF GetItem(items, "id", r.itemId) = {}
  THEN sendResponse(404, [error |-> "Item not found"])
  ELSE IF ~r.indexOk /\ ~r.scanOk
  THEN sendResponse(500, [error |-> "Failed to get reviews"])
  ELSE LET sorted == sortNewestFirst(result)
       IN sendResponse(200,
            [reviews |-> sorted,
             averageRating |-> averageRatingTenths(sorted),
             totalReviews |-> Len(sorted)])

\* The duplicate check of handleCreateReview on its two paths.
\* The query with its two values bound to the wrong attributes.
ExistingReviewsQuery_Swapped(itemId, userId) ==
  QueryIndex(reviews, "itemId", userId, {<<"userId", itemId>>})

ExistingReviewsQuery(itemId, userId) ==
  QueryIndex(reviews, "itemId", itemId, {<<"userId", userId>>})

\* The scan with its two values bound to the wrong attributes.
ExistingReviewsScan_Swapped(itemId, userId) ==
  ScanTable(reviews, {<<"itemId", userId>>, <<"userId", itemId>>})

ExistingReviewsScan(itemId, userId) ==
  ScanTable(reviews, {<<"itemId", itemId>>, <<"userId", userId>>})

ReviewOutcome(response, newReviews) ==
  [response |-> response, reviews |-> newReviews]

\* handleCreateReview up to the duplicate check: the response that ends the
\* request there, or Null when the check found no review and it goes on.
createReviewChecks(r) ==
  LET decoded == verifyToken(r.auth)
  IN IF decoded = Null
     THEN sendResponse(401, [error |-> "Unauthorized: Invalid or missing token"])
     ELSE IF ~r.bodyOk THEN handlerCatch("Unexpected token")
     ELSE IF r.itemId = 0
     THEN sendResponse(400, [error |-> "itemId is required"])
     ELSE IF r.rating = Undefined \/ JsLess(r.rating, 1) \/ JsGreater(r.rating, 5)
     THEN sendResponse(400,
            [error |-> "rating is required and must be between 1 and 5"])
     ELSE IF FalsySeq(r.comment) \/ Len(trim(r.comment)) = 0
     THEN sendResponse(400, [error |-> "comment is required"])
     ELSE IF ~r.getOk
     THEN sendResponse(500, [error |-> "Failed to create review"])
     ELSE IF GetItem(items, "id", r.itemId) = {}
     THEN sendResponse(404, [error |-> "Item not found"])
     ELSE IF ~r.indexOk /\ ~r.scanOk
     THEN sendResponse(500, [error |-> "Failed to create review"])
     ELSE LET existingReviews ==
                IF r.indexOk
                THEN ExistingReviewsQuery(r.itemId, decoded.userId)
                ELSE ExistingReviewsScan(r.itemId, decoded.userId)
          IN IF Cardinality(existingReviews) > 0
             THEN sendResponse(409,
                    [error |-> "You have already reviewed this item"])
             ELSE Null

\* handleCreateReview from "Create review" on: the insert and its response.
\* A rating that parses to NaN cannot be marshalled: the put throws.
createReviewInsert(r) ==
  LET parsed == parseNumber(r.rating)
      review == [reviewId |-> uuidv4(reviews),
                 itemId |-> r.itemId,
                 userId |-> verifyToken(r.auth).userId,
                 rating |-> IF isNaN(parsed) THEN 0 ELSE parsed.v,
                 comment |-> trim(r.comment),
                 createdAt |-> now,
                 updatedAt |-> now]
  IN IF ~r.putOk \/ isNaN(parsed)
     THEN ReviewOutcome(sendResponse(500,
            [error |-> "Failed to create review"]), reviews)
     ELSE ReviewOutcome(sendResponse(201,
            [message |-> "Review created successfully", review |-> review]),
            PutItem(reviews, "reviewId", review))

handleCreateReview(r) ==
  IF createReviewChecks(r) # Null
  THEN ReviewOutcome(createReviewChecks(r), reviews)
  ELSE createReviewInsert(r)

----------------------------------------------------------------------------
(* The orders handler. *)

\* A query that returns the whole table.
OrdersByUserQuery_All(userId) == orders

\* The lookup of handleGetOrders on its two paths.
OrdersByUserQuery(userId) == QueryIndex(orders, "userId", userId, {})

\* The scan filtering on the key of the table instead of the owner.
OrdersByUserScan_WrongAttr(userId) == ScanTable(orders, {<<"orderId", userId>>})

OrdersByUserScan(userId) == ScanTable(orders, {<<"userId", userId>>})

\* { ...item, itemDetails }
WithField(r, f, v) == [k \in DOMAIN r \cup {f} |-> IF k = f THEN v ELSE r[k]]

\* One line item of an order, enriched: the catalog record of its itemId,
\* or null when there is none or the GetCommand threw (getOk is false).
enrichItem(item, getOk) ==
  LET found == IF getOk THEN GetItem(items, "id", item.itemId) ELSE {}
  IN WithField(item, "itemDetails",
               IF found = {} THEN Null ELSE CHOOSE i \in found : TRUE)

\* One failing lookup leaves every line item of the order without details.
enrichOrder_AllOrNothing(order, failing) ==
  [order EXCEPT !.items =
     [i \in 1..Len(order.items) |->
        enrichItem(order.items[i],
                   \A j \in 1..Len(order.items) : <<order.orderId, j>> \notin failing)]]

\* failing is the set of <<orderId, position>> whose GetCommand throws.
enrichOrder(order, failing) ==
  [order EXCEPT !.items =
     [i \in 1..Len(order.items) |->
        enrichItem(order.items[i], <<order.orderId, i>> \notin failing)]]

handleGetOrders(r) ==
  LET decoded == verifyToken(r.auth)
  IN IF decoded = Null
     THEN sendResponse(401, [error |-> "Unauthorized: Invalid or missing token"])
     ELSE IF ~r.indexOk /\ ~r.scanOk
     THEN sendResponse(500, [error |-> "Failed to get orders"])
     ELSE LET result == IF r.indexOk THEN OrdersByUserQuery(decoded.userId)
                        ELSE OrdersByUserScan(decoded.userId)
          IN sendResponse(200,
               [orders |-> {enrichOrder(o, r.failing) : o \in result}])

OrderOutcome(response, newOrders) == [response |-> response, orders |-> newOrders]

handleCreateOrder(r) ==
  LET decoded == verifyToken(r.auth)
  IN IF decoded = Null
     THEN OrderOutcome(sendResponse(401,
            [error |-> "Unauthorized: Invalid or missing token"]), orders)
     ELSE IF ~r.bodyOk THEN OrderOutcome(handlerCatch("Unexpected token"), orders)
     ELSE IF r.items.t # "array" \/ Len(r.items.a) = 0
     THEN OrderOutcome(sendResponse(400,
            [error |-> "Items array is required and cannot be empty"]), orders)
     ELSE IF Falsy(r.shippingAddress)
     THEN OrderOutcome(sendResponse(400,
            [error |-> "Shipping address is required"]), orders)
     ELSE IF r.total = Undefined \/ JsLessEq(r.total, 0)
     THEN OrderOutcome(sendResponse(400,
            [error |-> "Total must be a positive number"]), orders)
     ELSE
       LET parsed == parseNumber(r.total)
           order == [orderId |-> uuidv4(orders),
                     userId |-> decoded.userId,
                     items |-> r.items.a,
                     shippingAddress |-> r.shippingAddress,
                     total |-> IF isNaN(parsed) THEN 0 ELSE parsed.v,
                     status |-> "pending",
                     createdAt |-> now,
                     updatedAt |-> now]
       IN \* a total that parses to NaN cannot be marshalled: the put throws
          IF ~r.putOk \/ isNaN(parsed)
          THEN OrderOutcome(sendResponse(500,
                 [error |-> "Failed to create order"]), orders)
          ELSE OrderOutcome(sendResponse(201,
                 [message |-> "Order created successfully", order |-> order]),
                 PutItem(orders, "orderId", order))

----------------------------------------------------------------------------
(* A store with three accounts and two catalog items, as three register    *)
(* requests and two add-item requests leave it: the initial state of the   *)
(* specifications of the reviews and the orders handlers, which read       *)
(* tokens and catalog items and write neither.                             *)

SeedAccount(userId, email, role) ==
  [userId |-> userId, email |-> email, name |-> "Ann",
   password |-> bcryptHash(<<"s", "e", "c", "r", "e", "t">>),
   role |-> role, hasStorefront |-> FALSE, createdAt |-> 1]

SeedUsers ==
  {SeedAccount(1, <<"a", "b">>, "buyer"),
   SeedAccount(2, <<"c", "d">>, "seller"),
   SeedAccount(3, <<"e", "f">>, "seller")}

SeedTokens == {jwtSign(u.userId, u.email, u.role) : u \in SeedUsers}

SeedItem(id, price) ==
  [id |-> id, storeId |-> 1, name |-> "Mug", description |-> "A mug",
   price |-> price, category |-> "home", image |-> DefaultItemImage,
   averageRating |-> 0, reviews |-> <<>>, createdAt |-> 1, updatedAt |-> 1]

SeedItems == {SeedItem(1, 1999), SeedItem(2, 0)}

InitShop ==
  /\ users = SeedUsers
  /\ tokens = SeedTokens
  /\ items = SeedItems
  /\ storefronts = {}
  /\ reviews = {}
  /\ orders = {}
  /\ now = 1
  /\ req = NoRequest
  /\ resp = NoResponse
  /\ inflight = {}
  /\ overlap = FALSE
  /\ legacy = {}

\* The Authorization headers of the faulty requests.
BadAuthHeaders == {a \in AuthHeaders : a.kind # "valid"}

GoodAuthHeaders == {a \in AuthHeaders : a.kind = "valid"}

----------------------------------------------------------------------------
(* Requests to and actions of the items handler. *)

AddItemRequests ==
  LET good == [op : {"addItem"}, bodyOk : {TRUE}, name : {"Mug"},
               description : {"A mug"}, price : {Num(0), Num(1999)},
               category : {"home"}, image : {""}, storeId : {1, 2},
               putOk : BOOLEAN]
      base == [op |-> "addItem", bodyOk |-> TRUE, name |-> "Mug",
               description |-> "A mug", price |-> Num(1999),
               category |-> "home", image |-> "", storeId |-> 1,
               putOk |-> TRUE]
  IN good \cup {[base EXCEPT !.bodyOk = FALSE],
                [base EXCEPT !.name = ""],
                [base EXCEPT !.description = ""],
                [base EXCEPT !.price = Undefined],
                [base EXCEPT !.price = Num(-1)],
                [base EXCEPT !.price = Str(<<"a", "b", "c">>)],
                [base EXCEPT !.price = Str(<<"1", "2">>)],
                [base EXCEPT !.price = Str(<<"1", "2", "a">>)],
                [base EXCEPT !.price = Str(<<"-", "1", "a">>)],
                [base EXCEPT !.category = ""],
                [base EXCEPT !.storeId = 0],
                [base EXCEPT !.image = "mug.png"]}

GetItemsRequests ==
  [op : {"getItems"}, storeId : 0..3, indexOk : BOOLEAN, scanOk : BOOLEAN]

AddItem(r) ==
  LET out == handleAddItem(r)
  IN /\ out.items = items \/ Cardinality(items) < MaxItems
     /\ req' = r
     /\ resp' = out.response
     /\ items' = out.items
     /\ UNCHANGED <<users, storefronts, reviews, orders, tokens, now,
                    inflight, overlap, legacy>>

GetItems(r) == ReadOnly(r, handleGetItems(r))

NextItems ==
  \/ \E r \in AddItemRequests : AddItem(r)
  \/ \E r \in GetItemsRequests : GetItems(r)

SpecItems == InitAuth /\ [][NextItems]_vars

----------------------------------------------------------------------------
(* Requests to and actions of the reviews handler. *)

CreateReviewRequest(auth, bodyOk, itemId, rating, comment, env) ==
  [op |-> "createReview", auth |-> auth, bodyOk |-> bodyOk, itemId |-> itemId,
   rating |-> rating, comment |-> comment, getOk |-> env[1],
   indexOk |-> env[2], scanOk |-> env[3], putOk |-> env[4]]

\* What DynamoDB does during a create-review request, as <<getOk, indexOk,
\* scanOk, putOk>>: every command succeeds, or the index query throws and
\* the scan runs.
AllOk == <<TRUE, TRUE, TRUE, TRUE>>

ScanPath == <<TRUE, FALSE, TRUE, TRUE>>

\* The other outcomes: the get, the query and the scan, or the put throws.
FailingEnvs ==
  {<<FALSE, TRUE, TRUE, TRUE>>, <<TRUE, FALSE, FALSE, TRUE>>,
   <<TRUE, TRUE, TRUE, FALSE>>, <<TRUE, FALSE, TRUE, FALSE>>}

\* Who reviews what: every account item 1, the first account item 2 too.
ReviewPairs ==
  {<<a, 1>> : a \in GoodAuthHeaders}
  \cup {<<a, 2>> : a \in {g \in GoodAuthHeaders : g.payload.userId = 1}}

\* The well-formed requests on both paths of the duplicate check, and one
\* of them with each fault.
CreateReviewRequests ==
  LET ok == <<"o", "k">>
      good == {CreateReviewRequest(p[1], TRUE, p[2], Num(n), ok, e) :
                 p \in ReviewPairs, n \in {4, 5}, e \in {AllOk, ScanPath}}
      a1 == [kind |-> "valid", payload |-> jwtSign(1, <<"a", "b">>, "buyer")]
  IN good
     \cup {CreateReviewRequest(a1, TRUE, 1, Num(4), ok, e) : e \in FailingEnvs}
     \cup {CreateReviewRequest(a, TRUE, 1, Num(4), ok, AllOk) : a \in BadAuthHeaders}
     \cup {CreateReviewRequest(a1, FALSE, 1, Num(4), ok, AllOk)}
     \cup {CreateReviewRequest(a1, TRUE, i, Num(4), ok, AllOk) : i \in {0, 3}}
     \cup {CreateReviewRequest(a1, TRUE, 1, n, ok, AllOk) :
             n \in {Undefined, Num(0), Num(1), Num(6), Str(<<"a", "b", "c">>)}}
     \cup {CreateReviewRequest(a1, TRUE, 1, Num(4), c, AllOk) :
             c \in {<<>>, <<" ">>, <<" ", "o", "k", " ">>}}

GetReviewsRequests ==
  {[op |-> "getReviews", itemId |-> i, getOk |-> e[1], indexOk |-> e[2],
    scanOk |-> e[3]] :
     i \in 1..3,
     e \in {AllOk, ScanPath, <<FALSE, TRUE, TRUE, TRUE>>,
            <<TRUE, FALSE, FALSE, TRUE>>}}
  \cup {[op |-> "getReviews", itemId |-> 0, getOk |-> TRUE, indexOk |-> TRUE,
         scanOk |-> TRUE]}

CreateReview(r) ==
  LET out == handleCreateReview(r)
  IN /\ out.reviews = reviews \/ Cardinality(reviews) < MaxReviews
     /\ req' = r
     /\ resp' = out.response
     /\ reviews' = out.reviews
     /\ UNCHANGED <<users, storefronts, items, orders, tokens, now,
                    inflight, overlap, legacy>>

GetReviews(r) ==
  \E result \in ResultOrders(ReviewsRead(r)) :
    ReadOnly(r, handleGetReviews(r, result))

NextReviews ==
  \/ \E r \in CreateReviewRequests : CreateReview(r)
  \/ \E r \in GetReviewsRequests : GetReviews(r)

SpecReviews == InitShop /\ [][NextReviews]_vars

----------------------------------------------------------------------------
(* The reviews handler under a clock that advances: every account reviews *)
(* item 1, at any instant, and the reviews of the item are read on both    *)
(* paths of the lookup.                                                    *)

\* new Date(): the clock moves on between requests.
Tick ==
  /\ now < MaxTime
  /\ now' = now + 1
  /\ UNCHANGED <<tables, tokens, req, resp, inflight, overlap>>

SortCreateRequests ==
  {CreateReviewRequest(a, TRUE, 1, Num(4), <<"o", "k">>, AllOk) :
     a \in GoodAuthHeaders}

SortGetRequests ==
  {[op |-> "getReviews", itemId |-> 1, getOk |-> TRUE, indexOk |-> e[2],
    scanOk |-> TRUE] : e \in {AllOk, ScanPath}}

NextSort ==
  \/ Tick
  \/ \E r \in SortCreateRequests : CreateReview(r)
  \/ \E r \in SortGetRequests : GetReviews(r)

SpecSort == InitShop /\ [][NextSort]_vars

----------------------------------------------------------------------------
(* Requests to and actions of the orders handler. *)

LineItem(itemId) == [itemId |-> itemId, quantity |-> 1, price |-> 500]

\* The line items of an order body: item 3 is not in the catalog.
LineItemLists ==
  {<<LineItem(1)>>, <<LineItem(1), LineItem(2)>>, <<LineItem(3), LineItem(2)>>}

ArrayOf(a) == [t |-> "array", a |-> a]

CreateOrderRequest(auth, bodyOk, lines, address, total, putOk) ==
  [op |-> "createOrder", auth |-> auth, bodyOk |-> bodyOk, items |-> lines,
   shippingAddress |-> address, total |-> total, putOk |-> putOk]

CreateOrderRequests ==
  LET addr == "1 Main St"
      good == {CreateOrderRequest(a, TRUE, ArrayOf(l), addr, Num(2499), TRUE) :
                 a \in {g \in GoodAuthHeaders : g.payload.userId \in {1, 2}},
                 l \in LineItemLists}
      a1 == [kind |-> "valid", payload |-> jwtSign(1, <<"a", "b">>, "buyer")]
      l1 == ArrayOf(<<LineItem(1)>>)
  IN good
     \cup {CreateOrderRequest(a, TRUE, l1, addr, Num(2499), TRUE) :
             a \in BadAuthHeaders}
     \cup {CreateOrderRequest(a1, FALSE, l1, addr, Num(2499), TRUE),
           CreateOrderRequest(a1, TRUE, l1, addr, Num(2499), FALSE)}
     \cup {CreateOrderRequest(a1, TRUE, l, addr, Num(2499), TRUE) :
             l \in {Undefined, Str(<<"n", "o">>), ArrayOf(<<>>)}}
     \cup {CreateOrderRequest(a1, TRUE, l1, "", Num(2499), TRUE)}
     \cup {CreateOrderRequest(a1, TRUE, l1, addr, t, TRUE) :
             t \in {Undefined, Num(0), Num(-1), Str(<<"a", "b", "c">>),
                    Str(<<"-", "5", "x">>)}}

\* The line items of the stored orders of one account.
LinesOf(userId) ==
  UNION {{<<o.orderId, i>> : i \in 1..Len(o.items)} :
           o \in {x \in orders : x.userId = userId}}

\* Get-orders requests: under a valid token, every set of failing line-item
\* lookups, and every outcome of the lookup of the orders.
GetOrdersUnder(a) ==
  {[op |-> "getOrders", auth |-> a, indexOk |-> TRUE, scanOk |-> TRUE,
    failing |-> f] : f \in SUBSET LinesOf(a.payload.userId)}
  \cup {[op |-> "getOrders", auth |-> a, indexOk |-> FALSE, scanOk |-> ok,
          failing |-> {}] : ok \in BOOLEAN}

GetOrdersRequests ==
  UNION {GetOrdersUnder(a) : a \in GoodAuthHeaders}
  \cup {[op |-> "getOrders", auth |-> a, indexOk |-> TRUE, scanOk |-> TRUE,
         failing |-> {}] : a \in BadAuthHeaders}

CreateOrder(r) ==
  LET out == handleCreateOrder(r)
  IN /\ out.orders = orders \/ Cardinality(orders) < MaxOrders
     /\ req' = r
     /\ resp' = out.response
     /\ orders' = out.orders
     /\ UNCHANGED <<users, storefronts, items, reviews, tokens, now,
                    inflight, overlap, legacy>>

GetOrders(r) == ReadOnly(r, handleGetOrders(r))

NextOrders ==
  \/ \E r \in CreateOrderRequests : CreateOrder(r)
  \/ \E r \in GetOrdersRequests : GetOrders(r)

SpecOrders == InitShop /\ [][NextOrders]_vars

----------------------------------------------------------------------------
(* One get-orders request, lookup by lookup.  The handler starts the       *)
(* GetCommand of every line item of every order at once and awaits them    *)
(* with Promise.all; they settle in any order.  The request in flight      *)
(* holds the orders it read and the log of the lookups that settled, in    *)
(* the order in which they settled.                                        *)

\* The line items in the order in which their lookups settled.
promiseAll_CompletionOrder(order, log) ==
  LET mine == SelectSeq(log, LAMBDA e : e.key[1] = order.orderId)
  IN [i \in 1..Len(mine) |-> mine[i].value]

\* await Promise.all(order.items.map(async (item) => ...)): the value of
\* each promise at the position of its line item.
promiseAll(order, log) ==
  [i \in 1..Len(order.items) |->
     (CHOOSE e \in {log[j] : j \in 1..Len(log)} :
        e.key = <<order.orderId, i>>).value]

\* The lookups of the request that have not settled.
pendingLookups(p) ==
  UNION {{<<o.orderId, i>> : i \in 1..Len(o.items)} : o \in p.result}
    \ {p.log[j].key : j \in 1..Len(p.log)}

ParallelCreateRequests ==
  {CreateOrderRequest(a, TRUE, ArrayOf(l), "1 Main St", Num(2499), TRUE) :
     a \in {g \in GoodAuthHeaders : g.payload.userId = 1},
     l \in LineItemLists}

ParallelGetRequests ==
  {[op |-> "getOrders", auth |-> a, indexOk |-> ok, scanOk |-> TRUE,
    failing |-> f] :
     a \in {g \in AuthHeaders : g.kind = "missing"
                                 \/ (g.kind = "valid" /\ g.payload.userId = 1)},
     ok \in BOOLEAN,
     f \in {{}, {<<1, 1>>}, {<<1, 2>>, <<2, 1>>}}}

\* The request up to the start of its lookups: it is answered there, or
\* its lookups are in flight.
BeginGetOrders(r) ==
  LET decoded == verifyToken(r.auth)
      result == IF r.indexOk THEN OrdersByUserQuery(decoded.userId)
                ELSE OrdersByUserScan(decoded.userId)
      p == [id |-> 1, r |-> r, result |-> result, log |-> <<>>]
  IN /\ inflight = {}
     /\ IF handleGetOrders(r).statusCode # 200
        THEN /\ req' = r
             /\ resp' = handleGetOrders(r)
             /\ UNCHANGED <<inflight, overlap>>
        ELSE /\ Cardinality(pendingLookups(p)) <= MaxLookups
             /\ inflight' = {p}
             /\ overlap' = FALSE
             /\ UNCHANGED <<req, resp>>
     /\ UNCHANGED <<tables, tokens, now>>

\* One lookup settles: with the record, with absence, or with a failure.
\* overlap records that it settled before the lookup of an earlier line
\* item of its order.
ResolveLookup(p, k) ==
  LET order == CHOOSE o \in p.result : o.orderId = k[1]
      value == enrichItem(order.items[k[2]], k \notin p.r.failing)
  IN /\ p \in inflight
     /\ k \in pendingLookups(p)
     /\ inflight' = {[p EXCEPT !.log = Append(p.log, [key |-> k, value |-> value])]}
     /\ overlap' = (overlap \/ \E j \in pendingLookups(p) :
                                  j[1] = k[1] /\ j[2] < k[2])
     /\ UNCHANGED <<tables, tokens, now, req, resp>>

\* Every promise settled: the response.
RespondGetOrders(p) ==
  /\ p \in inflight
  /\ pendingLookups(p) = {}
  /\ req' = p.r
  /\ resp' = sendResponse(200,
       [orders |-> {[o EXCEPT !.items = promiseAll(o, p.log)] : o \in p.result}])
  /\ inflight' = {}
  /\ UNCHANGED <<tables, tokens, now, overlap>>

NextParallel ==
  \/ \E r \in ParallelCreateRequests : CreateOrder(r)
  \/ \E r \in ParallelGetRequests : BeginGetOrders(r)
  \/ \E p \in inflight : \E k \in pendingLookups(p) : ResolveLookup(p, k)
  \/ \E p \in inflight : RespondGetOrders(p)

SpecParallel == InitShop /\ [][NextParallel]_vars

----------------------------------------------------------------------------
(* Create-review requests that overlap.  handleCreateReview awaits         *)
(* DynamoDB between its duplicate check and its insert, and every request  *)
(* is an invocation of its own, so another request may run in between.  A  *)
(* request that passed its checks is in flight until its insert.           *)

RaceRequests ==
  {CreateReviewRequest(a, TRUE, 1, Num(n), <<"o", "k">>, e) :
     a \in {g \in GoodAuthHeaders : g.payload.userId \in {1, 2}},
     n \in {4, 5}, e \in {AllOk, ScanPath}}

\* The request runs up to its duplicate check: it is answered there, or it
\* goes on to its insert.
BeginCreateReview(r) ==
  /\ Cardinality(inflight) < MaxInflight
  /\ IF createReviewChecks(r) # Null
     THEN /\ req' = r
          /\ resp' = createReviewChecks(r)
          /\ UNCHANGED <<inflight, overlap>>
     ELSE /\ inflight' = inflight \cup
               {[id |-> CHOOSE i \in 1..MaxInflight :
                          \A q \in inflight : q.id # i,
                 r |-> r]}
          /\ overlap' = (overlap \/ inflight # {})
          /\ UNCHANGED <<req, resp>>
  /\ UNCHANGED <<tables, tokens, now>>

\* The insert of a request in flight, and its response.
FinishCreateReview(p) ==
  LET out == createReviewInsert(p.r)
  IN /\ p \in inflight
     /\ out.reviews = reviews \/ Cardinality(reviews) < MaxReviews
     /\ req' = p.r
     /\ resp' = out.response
     /\ reviews' = out.reviews
     /\ inflight' = inflight \ {p}
     /\ UNCHANGED <<users, storefronts, items, orders, tokens, now, overlap, legacy>>

NextRace ==
  \/ \E r \in RaceRequests : BeginCreateReview(r)
  \/ \E p \in inflight : FinishCreateReview(p)

SpecRace == InitShop /\ [][NextRace]_vars

----------------------------------------------------------------------------
(* Register requests that overlap.  handleRegister awaits the hash of the  *)
(* password between its lookup and its insert; the index answers every     *)
(* lookup.                                                                 *)

RegisterRaceRequests ==
  [op : {"register"}, bodyOk : {TRUE}, name : {"Ann"},
   email : {<<"a", "b">>, <<"A", "b">>, <<"c", "d">>},
   password : {<<"s", "e", "c", "r", "e", "t">>}, role : {"buyer"},
   indexOk : {TRUE}, putOk : BOOLEAN]

\* The request runs up to its lookup: it is answered there, or it goes on
\* to its insert.
BeginRegister(r) ==
  /\ Cardinality(inflight) < MaxInflight
  /\ IF registerChecks(r) # Null
     THEN /\ req' = r
          /\ resp' = registerChecks(r)
          /\ UNCHANGED <<inflight, overlap>>
     ELSE /\ inflight' = inflight \cup
               {[id |-> CHOOSE i \in 1..MaxInflight :
                          \A q \in inflight : q.id # i,
                 r |-> r]}
          /\ overlap' = (overlap \/ inflight # {})
          /\ UNCHANGED <<req, resp>>
  /\ UNCHANGED <<tables, tokens, now>>

\* The insert of a request in flight, and its response.
FinishRegister(p) ==
  LET out == registerInsert(p.r)
  IN /\ p \in inflight
     /\ out.users = users \/ Cardinality(users) < MaxUsers
     /\ req' = p.r
     /\ resp' = out.response
     /\ users' = out.users
     /\ tokens' = out.tokens
     /\ inflight' = inflight \ {p}
     /\ UNCHANGED <<storefronts, items, reviews, orders, now, overlap, legacy>>

NextRegisterRace ==
  \/ \E r \in RegisterRaceRequests : BeginRegister(r)
  \/ \E p \in inflight : FinishRegister(p)

SpecRegisterRace == InitAuth /\ [][NextRegisterRace]_vars

----------------------------------------------------------------------------
(* The token-protected operations, each under every Authorization header  *)
(* that is refused and under the token of one seller, and with a body that *)
(* is well formed, unparseable, or lacks a field.                          *)

TokenRequests ==
  LET ok == <<"o", "k">>
      store == [op |-> "createStorefront", auth |-> NoPayload, bodyOk |-> TRUE,
                name |-> "Shop", description |-> "Mugs", category |-> "home",
                image |-> "", putOk |-> TRUE, updateOk |-> TRUE]
      l1 == ArrayOf(<<LineItem(1)>>)
  IN UNION {
       {[op |-> "profile", auth |-> a, getOk |-> TRUE],
        [op |-> "myStorefronts", auth |-> a, indexOk |-> TRUE, scanOk |-> TRUE],
        [op |-> "getOrders", auth |-> a, indexOk |-> TRUE, scanOk |-> TRUE,
         failing |-> {}],
        [store EXCEPT !.auth = a],
        [store EXCEPT !.auth = a, !.bodyOk = FALSE],
        [store EXCEPT !.auth = a, !.name = ""],
        CreateReviewRequest(a, TRUE, 1, Num(4), ok, AllOk),
        CreateReviewRequest(a, FALSE, 1, Num(4), ok, AllOk),
        CreateReviewRequest(a, TRUE, 1, Undefined, ok, AllOk),
        CreateOrderRequest(a, TRUE, l1, "1 Main St", Num(2499), TRUE),
        CreateOrderRequest(a, FALSE, l1, "1 Main St", Num(2499), TRUE),
        CreateOrderRequest(a, TRUE, Undefined, "1 Main St", Num(2499), TRUE)} :
       a \in BadAuthHeaders
             \cup {g \in GoodAuthHeaders : g.payload.userId = 2}}

NextTokens ==
  \/ \E r \in {q \in TokenRequests : q.op = "profile"} : GetProfile(r)
  \/ \E r \in {q \in TokenRequests : q.op = "createStorefront"} : CreateStorefront(r)
  \/ \E r \in {q \in TokenRequests : q.op = "myStorefronts"} : GetMyStorefronts(r)
  \/ \E r \in {q \in TokenRequests : q.op = "createReview"} : CreateReview(r)
  \/ \E r \in {q \in TokenRequests : q.op = "getOrders"} : GetOrders(r)
  \/ \E r \in {q \in TokenRequests : q.op = "createOrder"} : CreateOrder(r)

SpecTokens == InitShop /\ [][NextTokens]_vars

----------------------------------------------------------------------------
(* The operations that take a body, each with a well-formed body and with  *)
(* bodies that are unparseable, lack a field or hold a value out of range, *)
(* under the token of one account where a token is needed.                 *)

InputRequests ==
  LET ok == <<"o", "k">>
      a1 == [kind |-> "valid", payload |-> jwtSign(1, <<"a", "b">>, "buyer")]
      a2 == [kind |-> "valid", payload |-> jwtSign(2, <<"c", "d">>, "seller")]
      store == [op |-> "createStorefront", auth |-> a2, bodyOk |-> TRUE,
                name |-> "Shop", description |-> "Mugs", category |-> "home",
                image |-> "", putOk |-> TRUE, updateOk |-> TRUE]
  IN {r \in RegisterRequests :
        /\ r.indexOk /\ r.putOk
        /\ r.email \in {<<"a", "b">>, <<>>}
        /\ r.password \in {<<"s", "e", "c", "r", "e", "t">>, <<>>, ShortPassword}
        /\ r.role \in {"buyer", "", "admin"}}
     \cup {r \in LoginRequests :
             /\ r.indexOk
             /\ r.email \in {<<"a", "b">>, <<>>}
             /\ r.password \in {<<"s", "e", "c", "r", "e", "t">>, <<>>}}
     \cup {r \in AddItemRequests :
             /\ r.putOk /\ r.storeId \in {0, 1}
             /\ r.image = "" /\ r.price # Num(0)}
     \cup {CreateReviewRequest(a1, TRUE, 1, n, c, AllOk) :
             n \in {Undefined, Num(0), Num(4), Num(6), Str(<<"a", "b", "c">>),
                    Str(<<"4">>), Str(<<"9", "x">>)},
             c \in {ok, <<>>, <<" ">>}}
     \cup {CreateReviewRequest(a1, FALSE, 1, Num(4), ok, AllOk),
           CreateReviewRequest(a1, TRUE, 0, Num(4), ok, AllOk)}
     \cup {r \in CreateOrderRequests :
             /\ r.auth = a1 /\ r.putOk
             /\ r.items.t = "array" => Len(r.items.a) <= 1}
     \cup {store, [store EXCEPT !.bodyOk = FALSE], [store EXCEPT !.name = ""],
           [store EXCEPT !.description = ""], [store EXCEPT !.category = ""]}

NextInput ==
  \/ \E r \in {q \in InputRequests : q.op = "register"} : Register(r)
  \/ \E r \in {q \in InputRequests : q.op = "login"} : Login(r)
  \/ \E r \in {q \in InputRequests : q.op = "addItem"} : AddItem(r)
  \/ \E r \in {q \in InputRequests : q.op = "createReview"} : CreateReview(r)
  \/ \E r \in {q \in InputRequests : q.op = "createOrder"} : CreateOrder(r)
  \/ \E r \in {q \in InputRequests : q.op = "createStorefront"} : CreateStorefront(r)

SpecInput == InitShop /\ [][NextInput]_vars

----------------------------------------------------------------------------
(* The entry points: exports.handler of each function, from the event to   *)
(* the response.  An event carries its method ("" when the event has       *)
(* none), its path as the sequence of its segments, and the fields the     *)
(* handlers read.                                                          *)

\* path.includes("/a/b"): the segments occur in the path one after another.
pathIncludes(path, segments) ==
  \E i \in 0..(Len(path) - Len(segments)) :
    \A j \in 1..Len(segments) : path[i + j] = segments[j]

\* path.includes("/a/"): the segment occurs and is followed by another.
pathIncludesDir(path, segment) ==
  \E i \in 1..(Len(path) - 1) : path[i] = segment

\* event.httpMethod || 'GET'
httpMethodOf(e) == IF e.method = "" THEN "GET" ELSE e.method

preflight == sendResponse(200, [message |-> "CORS preflight successful"])

usersHandler(e, user) ==
  IF e.method = "OPTIONS" THEN AuthOutcome(preflight, users, tokens)
  ELSE IF pathIncludes(e.path, <<"auth", "register">>) THEN handleRegister(e)
  ELSE IF pathIncludes(e.path, <<"auth", "login">>) THEN handleLogin(e, user)
  ELSE IF pathIncludes(e.path, <<"auth", "profile">>) THEN handleGetProfile(e)
  ELSE AuthOutcome(sendResponse(404, [error |-> "Not found"]), users, tokens)

ordersHandler(e) ==
  IF e.method = "OPTIONS" THEN OrderOutcome(preflight, orders)
  ELSE IF httpMethodOf(e) = "GET" THEN OrderOutcome(handleGetOrders(e), orders)
  ELSE IF httpMethodOf(e) = "POST" THEN handleCreateOrder(e)
  ELSE OrderOutcome(sendResponse(405, [error |-> "Method not allowed"]), orders)

itemsHandler(e) ==
  IF e.method = "OPTIONS" THEN ItemOutcome(preflight, items)
  ELSE IF httpMethodOf(e) = "POST" THEN handleAddItem(e)
  ELSE IF httpMethodOf(e) = "GET" THEN ItemOutcome(handleGetItems(e), items)
  ELSE ItemOutcome(sendResponse(405, [error |-> "Method not allowed"]), items)

reviewsHandler(e, result) ==
  IF e.method = "OPTIONS" THEN ReviewOutcome(preflight, reviews)
  ELSE IF httpMethodOf(e) = "GET"
  THEN ReviewOutcome(handleGetReviews(e, result), reviews)
  ELSE IF httpMethodOf(e) = "POST" THEN handleCreateReview(e)
  ELSE ReviewOutcome(sendResponse(405, [error |-> "Method not allowed"]), reviews)

\* event.path.split('/').pop(), as a storeId (0 when it is not one).
pathStoreId(path) ==
  IF Len(path) > 0 /\ IsDigit(path[Len(path)])
  THEN DigitValue(path[Len(path)]) ELSE 0

storefrontsHandler(e) ==
  LET isGet == httpMethodOf(e) = "GET"
      my == pathIncludes(e.path, <<"storefronts", "my">>)
  IN IF e.method = "OPTIONS" THEN StoreOutcome(preflight, storefronts, users)
     ELSE IF pathIncludes(e.path, <<"storefronts">>) /\ httpMethodOf(e) = "POST"
     THEN handleCreateStorefront(e)
     ELSE IF pathIncludesDir(e.path, "storefronts") /\ isGet /\ ~my
     THEN StoreOutcome(
            handleGetStorefront([e EXCEPT !.storeId = pathStoreId(e.path)]),
            storefronts, users)
     ELSE IF my /\ isGet
     THEN StoreOutcome(handleGetMyStorefronts(e), storefronts, users)
     ELSE IF e.path = <<"storefronts">> /\ isGet
     THEN StoreOutcome(handleListStorefronts(e), storefronts, users)
     ELSE StoreOutcome(sendResponse(404, [error |-> "Not found"]),
                       storefronts, users)

\* The items handler of the readme: its responses are built in place.
legacyResponse(statusCode, body) == [statusCode |-> statusCode, body |-> body]

LegacyOutcome(response, newLegacy) == [response |-> response, legacy |-> newLegacy]

\* id is 0 and name is "" when the body or the query string has none; a
\* put or a get under an undefined key throws.
legacyItemsHandler(e) ==
  IF httpMethodOf(e) = "POST"
  THEN IF ~e.bodyOk \/ e.id = 0 \/ ~e.putOk
       THEN LegacyOutcome(legacyResponse(500, [message |-> "error"]), legacy)
       ELSE LET item == [id |-> e.id, name |-> e.name, createdAt |-> now]
            IN LegacyOutcome(
                 legacyResponse(200, [message |-> "Item added", item |-> item]),
                 PutItem(legacy, "id", item))
  ELSE IF httpMethodOf(e) = "GET"
  THEN IF e.id = 0 \/ ~e.getOk
       THEN LegacyOutcome(legacyResponse(500, [message |-> "error"]), legacy)
       ELSE LET found == GetItem(legacy, "id", e.id)
            IN LegacyOutcome(
                 legacyResponse(200, IF found = {}
                                     THEN [message |-> "Item not found"]
                                     ELSE CHOOSE i \in found : TRUE),
                 legacy)
  ELSE LegacyOutcome(legacyResponse(400, [message |-> "Unsupported method"]),
                     legacy)

----------------------------------------------------------------------------
(* Events to and actions of the entry points: a well-formed event of each  *)
(* function under every method and path, and one without a usable token.   *)

Methods == {"", "GET", "POST", "OPTIONS", "DELETE"}

EventAuths ==
  {[kind |-> "missing", payload |-> NoPayload],
   [kind |-> "valid", payload |-> jwtSign(2, <<"c", "d">>, "seller")]}

UsersEvents ==
  [op : {"users"}, method : Methods,
   path : {<<"auth", "register">>, <<"auth", "login">>, <<"auth", "profile">>,
           <<"auth">>},
   bodyOk : {TRUE}, name : {"Ann"}, email : {<<"c", "d">>},
   password : {<<"s", "e", "c", "r", "e", "t">>}, role : {"buyer"},
   auth : EventAuths, indexOk : {TRUE}, putOk : {TRUE}, getOk : {TRUE}]

OrdersEvents ==
  [op : {"orders"}, method : Methods, path : {<<"orders">>},
   auth : EventAuths, bodyOk : {TRUE}, items : {ArrayOf(<<LineItem(1)>>)},
   shippingAddress : {"1 Main St"}, total : {Num(2499)}, putOk : {TRUE},
   indexOk : {TRUE}, scanOk : {TRUE}, failing : {{}}]

ItemsEvents ==
  [op : {"items"}, method : Methods, path : {<<"items">>}, bodyOk : {TRUE},
   name : {"Mug"}, description : {"A mug"}, price : {Num(1999)},
   category : {"home"}, image : {""}, storeId : {0, 1}, putOk : {TRUE},
   indexOk : {TRUE}, scanOk : {TRUE}]

ReviewsEvents ==
  [op : {"reviews"}, method : Methods, path : {<<"reviews">>},
   auth : EventAuths, bodyOk : {TRUE}, itemId : {1}, rating : {Num(4)},
   comment : {<<"o", "k">>}, getOk : {TRUE}, indexOk : {TRUE},
   scanOk : {TRUE}, putOk : {TRUE}]

StorefrontsEvents ==
  [op : {"storefronts"}, method : Methods,
   path : {<<"storefronts">>, <<"storefronts", "1">>, <<"storefronts", "my">>,
           <<"stores">>},
   auth : EventAuths, bodyOk : {TRUE}, name : {"Shop"},
   description : {"Mugs"}, category : {"home"}, image : {""}, storeId : {0},
   putOk : {TRUE}, updateOk : {TRUE}, getOk : {TRUE}, indexOk : {TRUE},
   scanOk : {TRUE}]

LegacyEvents ==
  LET good == [op : {"legacy"}, method : Methods, id : {0, 1}, name : {"Mug"},
               bodyOk : {TRUE}, putOk : {TRUE}, getOk : {TRUE}]
  IN good \cup {[g EXCEPT !.bodyOk = FALSE] : g \in good}

UsersHttp(e) ==
  \E user \in IF LoginCandidates(e) = {} THEN {Null} ELSE LoginCandidates(e) :
    LET out == usersHandler(e, user)
    IN /\ Cardinality(out.users) <= Cardinality(SeedUsers) + MaxUsers
       /\ req' = e
       /\ resp' = out.response
       /\ users' = out.users
       /\ tokens' = out.tokens
       /\ UNCHANGED <<storefronts, items, reviews, orders, now, inflight,
                      overlap, legacy>>

OrdersHttp(e) ==
  LET out == ordersHandler(e)
  IN /\ Cardinality(out.orders) <= MaxOrders
     /\ req' = e
     /\ resp' = out.response
     /\ orders' = out.orders
     /\ UNCHANGED <<users, storefronts, items, reviews, tokens, now,
                    inflight, overlap, legacy>>

ItemsHttp(e) ==
  LET out == itemsHandler(e)
  IN /\ Cardinality(out.items) <= Cardinality(SeedItems) + MaxItems
     /\ req' = e
     /\ resp' = out.response
     /\ items' = out.items
     /\ UNCHANGED <<users, storefronts, reviews, orders, tokens, now,
                    inflight, overlap, legacy>>

ReviewsHttp(e) ==
  \E result \in ResultOrders(ReviewsRead(e)) :
    LET out == reviewsHandler(e, result)
    IN /\ Cardinality(out.reviews) <= MaxReviews
       /\ req' = e
       /\ resp' = out.response
       /\ reviews' = out.reviews
       /\ UNCHANGED <<users, storefronts, items, orders, tokens, now,
                      inflight, overlap, legacy>>

StorefrontsHttp(e) ==
  LET out == storefrontsHandler(e)
  IN /\ Cardinality(out.storefronts) <= MaxStorefronts
     /\ req' = e
     /\ resp' = out.response
     /\ storefronts' = out.storefronts
     /\ users' = out.users
     /\ UNCHANGED <<items, reviews, orders, tokens, now, inflight, overlap,
                    legacy>>

LegacyHttp(e) ==
  LET out == legacyItemsHandler(e)
  IN /\ req' = e
     /\ resp' = out.response
     /\ legacy' = out.legacy
     /\ UNCHANGED <<users, storefronts, items, reviews, orders, tokens, now,
                    inflight, overlap>>

\* The events of the readme's items handler alone: every method on two ids
\* and two names, an event without an id, and the failures of the body,
\* the put and the get.
LegacyRequests ==
  LET good == [op : {"legacy"}, method : Methods, id : {0, 1, 2},
               name : {"Mug", "Cup"}, bodyOk : {TRUE}, putOk : {TRUE},
               getOk : {TRUE}]
      base == {g \in good : g.id = 1 /\ g.name = "Mug"}
  IN good \cup {[g EXCEPT !.bodyOk = FALSE] : g \in base}
          \cup {[g EXCEPT !.putOk = FALSE] : g \in base}
          \cup {[g EXCEPT !.getOk = FALSE] : g \in base}

NextLegacy == \E e \in LegacyRequests : LegacyHttp(e)

SpecLegacy == InitAuth /\ [][NextLegacy]_vars

\* Items added to the catalog, reviewed and read: two accounts review a
\* seeded item and the first item that add-item stores.
AggregateRequests ==
  {CreateReviewRequest(a, TRUE, i, Num(IF a.payload.userId = 1 THEN 5 ELSE 2),
                       <<"o", "k">>, AllOk) :
     a \in {g \in GoodAuthHeaders : g.payload.userId \in {1, 2}}, i \in {1, 3}}
  \cup {[op |-> "getReviews", itemId |-> i, getOk |-> TRUE, indexOk |-> ok,
          scanOk |-> TRUE] : i \in {1, 3}, ok \in BOOLEAN}

NextAggregate ==
  \/ \E e \in {x \in ItemsEvents : x.method = "POST" /\ x.storeId = 1} :
       ItemsHttp(e)
  \/ \E r \in {x \in AggregateRequests : x.op = "createReview"} : CreateReview(r)
  \/ \E r \in {x \in AggregateRequests : x.op = "getReviews"} : GetReviews(r)

SpecAggregate == InitShop /\ [][NextAggregate]_vars

NextHttp ==
  \/ \E e \in UsersEvents : UsersHttp(e)
  \/ \E e \in OrdersEvents : OrdersHttp(e)
  \/ \E e \in ItemsEvents : ItemsHttp(e)
  \/ \E e \in ReviewsEvents : ReviewsHttp(e)
  \/ \E e \in StorefrontsEvents : StorefrontsHttp(e)
  \/ \E e \in LegacyEvents : LegacyHttp(e)

SpecHttp == InitShop /\ [][NextHttp]_vars

----------------------------------------------------------------------------
(* The lookups on arbitrary tables: one table holds any records of the     *)
(* shape its handler stores, and the handlers that look records up run on  *)
(* it, on the index query path and on the scan path.                       *)

LookupReview(reviewId, itemId, userId) ==
  [reviewId |-> reviewId, itemId |-> itemId, userId |-> userId, rating |-> 4,
   comment |-> <<"o", "k">>, createdAt |-> 1, updatedAt |-> 1]

LookupOrder(orderId, userId) ==
  [orderId |-> orderId, userId |-> userId, items |-> <<LineItem(1)>>,
   shippingAddress |-> "1 Main St", total |-> 2499, status |-> "pending",
   createdAt |-> 1, updatedAt |-> 1]

LookupItem(id, storeId) == [SeedItem(id, 1999) EXCEPT !.storeId = storeId]

LookupStorefront(storeId, owner) ==
  [storeId |-> storeId, name |-> "Shop", description |-> "Mugs",
   category |-> "home", image |-> DefaultStoreImage, owner |-> owner,
   ownerName |-> <<"c", "d">>, items |-> <<>>, createdAt |-> 1,
   updatedAt |-> 1]

\* The tables of at most LookupSize records, with keys 1, 2, ...
TablesOf(universe, key) ==
  {T \in SUBSET universe :
     /\ Cardinality(T) <= LookupSize
     /\ {r[key] : r \in T} = 1..Cardinality(T)}

ReviewTables ==
  TablesOf({LookupReview(k, i, u) : k \in 1..LookupSize, i \in {1, 2}, u \in {1, 2}},
           "reviewId")

OrderTables ==
  TablesOf({LookupOrder(k, u) : k \in 1..LookupSize, u \in {1, 2}}, "orderId")

ItemTables ==
  TablesOf({LookupItem(k, st) : k \in 1..LookupSize, st \in {1, 2}}, "id")

StorefrontTables ==
  TablesOf({LookupStorefront(k, o) : k \in 1..LookupSize, o \in {2, 3}},
           "storeId")

InitLookup ==
  /\ users = SeedUsers
  /\ tokens = SeedTokens
  /\ now = 1
  /\ req = NoRequest
  /\ resp = NoResponse
  /\ inflight = {}
  /\ overlap = FALSE
  /\ legacy = {}
  /\ \/ reviews \in ReviewTables /\ items = SeedItems /\ orders = {}
        /\ storefronts = {}
     \/ orders \in OrderTables /\ items = SeedItems /\ reviews = {}
        /\ storefronts = {}
     \/ items \in ItemTables /\ reviews = {} /\ orders = {}
        /\ storefronts = {}
     \/ storefronts \in StorefrontTables /\ items = SeedItems /\ reviews = {}
        /\ orders = {}

\* The requests that reach a lookup, each on both of its paths.
LookupPaths == {<<TRUE, TRUE>>, <<FALSE, TRUE>>}

LookupRequests ==
  {[op |-> "getOrders", auth |-> a, indexOk |-> e[1], scanOk |-> e[2],
    failing |-> {}] : a \in GoodAuthHeaders, e \in LookupPaths}
  \cup {[op |-> "getItems", storeId |-> st, indexOk |-> e[1], scanOk |-> e[2]] :
          st \in 1..2, e \in LookupPaths}
  \cup {[op |-> "getReviews", itemId |-> i, getOk |-> TRUE, indexOk |-> e[1],
         scanOk |-> e[2]] : i \in 1..2, e \in LookupPaths}
  \cup {[op |-> "myStorefronts", auth |-> a, indexOk |-> e[1], scanOk |-> e[2]] :
          a \in GoodAuthHeaders, e \in LookupPaths}
  \cup {CreateReviewRequest(a, TRUE, i, Num(4), <<"o", "k">>, e) :
          a \in {g \in GoodAuthHeaders : g.payload.userId = 1},
          i \in 1..2, e \in {AllOk, ScanPath}}

NextLookup ==
  \/ \E r \in {q \in LookupRequests : q.op = "getOrders"} : GetOrders(r)
  \/ \E r \in {q \in LookupRequests : q.op = "getItems"} : GetItems(r)
  \/ \E r \in {q \in LookupRequests : q.op = "getReviews"} : GetReviews(r)
  \/ \E r \in {q \in LookupRequests : q.op = "myStorefronts"} : GetMyStorefronts(r)
  \/ \E r \in {q \in LookupRequests : q.op = "createReview"} : CreateReview(r)

SpecLookup == InitLookup /\ [][NextLookup]_vars

----------------------------------------------------------------------------
(* Claims about the users handler, checked under SpecAuth. *)

\* A register body that passes the validation of handleRegister.
WellFormedRegister(r) ==
  /\ r.op = "register" /\ r.bodyOk
  /\ r.name # "" /\ r.role \in {"buyer", "seller"}
  /\ Len(r.email) > 0 /\ Len(r.password) >= 6

\* C1: a register request whose email equals, ignoring letter case, the
\* email of an account an earlier register stored (with 201) returns 409
\* and stores no account, also when its EmailIndex query fails.
C1_SecondRegisterConflicts ==
  [][(/\ WellFormedRegister(req')
      /\ \E u \in users : toLowerCase(u.email) = toLowerCase(req'.email))
     => (resp'.statusCode = 409 /\ users' = users)]_vars

\* The two strings are equal up to the case of their letters.
EqualsIgnoringCase(a, b) ==
  /\ Len(a) = Len(b)
  /\ \A i \in 1..Len(a) :
       a[i] = b[i] \/ {a[i], b[i]} \in {{"a", "A"}, {"b", "B"}}

\* C24: every stored account's email is lowercase, and the email lookups of
\* register and login, when the index answers them, use the lowercase form
\* of the supplied email: a register with a letter-case variant of a stored
\* email is refused with 409, and a login with a letter-case variant of
\* the email of the one account stored under it and with its password
\* finds that account and returns 200 with its userId.
C24_EmailsAreLowercase ==
  [][/\ \A u \in users' : \A i \in 1..Len(u.email) : u.email[i] \notin {"A", "B"}
     /\ \A u \in users :
          /\ (/\ WellFormedRegister(req') /\ req'.indexOk
              /\ EqualsIgnoringCase(req'.email, u.email))
             => (resp'.statusCode = 409 /\ users' = users)
          /\ (/\ req'.op = "login" /\ req'.bodyOk /\ req'.indexOk
              /\ EqualsIgnoringCase(req'.email, u.email)
              /\ bcryptCompare(req'.password, u.password)
              /\ \A v \in users : v.email = u.email => v = u)
             => (/\ resp'.statusCode = 200
                 /\ resp'.body.token.userId = u.userId)]_vars

\* A login in capitals that found the account stored in lowercase.
C24_Witness ==
  /\ req.op = "login"
  /\ req.email = <<"A", "B">>
  /\ resp.statusCode = 200
  /\ resp.body.user.email = <<"a", "b">>
  /\ \E u \in users : u.email = <<"a", "b">> /\ u.userId = resp.body.token.userId

\* C8: a login with the email and the password of a stored account (one a
\* register returned 201 for) returns 200 with a token carrying that
\* account's userId and role, whatever was handled in between.
C8_LoginAfterRegister ==
  [][\A u \in users :
       (/\ req'.op = "login" /\ req'.bodyOk
        /\ toLowerCase(req'.email) = u.email
        /\ bcryptCompare(req'.password, u.password))
       => (/\ resp'.statusCode = 200
           /\ resp'.body.token.userId = u.userId
           /\ resp'.body.token.role = u.role)]_vars

\* C4, at the lookup of accounts by email: a register or login request
\* whose EmailIndex query fails has the outcome the same request has when
\* the query succeeds, and no 5xx response as long as nothing else fails.
C4_IndexFailureAlone ==
  [][/\ (req'.op = "register" /\ ~req'.indexOk) =>
          LET sameWithIndex == handleRegister([req' EXCEPT !.indexOk = TRUE])
          IN /\ resp' = sameWithIndex.response
             /\ users' = sameWithIndex.users
     /\ (req'.op = "login" /\ ~req'.indexOk) =>
          \E user \in LoginCandidates(req') \cup {Null} :
            resp' = handleLogin([req' EXCEPT !.indexOk = TRUE], user).response]_vars

\* C9: no response body of register, login or profile, whatever its
\* status, holds a password field: not at the top, not in the user it
\* returns, not in the token payload.
C9_NoPasswordInBody ==
  req.op \in {"register", "login", "profile"} =>
    /\ "password" \notin DOMAIN resp.body
    /\ "user" \in DOMAIN resp.body => "password" \notin DOMAIN resp.body.user
    /\ "token" \in DOMAIN resp.body => "password" \notin DOMAIN resp.body.token

\* Each of the three handlers has returned an account: register with 201,
\* login and profile with 200.
C9_Witness ==
  /\ req.op \in {"register", "login", "profile"}
  /\ resp.statusCode \in {200, 201}
  /\ "user" \in DOMAIN resp.body
  /\ resp.body.user.userId \in {u.userId : u \in users}

----------------------------------------------------------------------------
(* Claims about the reviews handler, checked under SpecReviews. *)

\* A create-review request with a valid token, rating and comment, whose
\* item lookup succeeds and whose duplicate check runs on one of its paths.
WellFormedReview(r) ==
  /\ r.op = "createReview"
  /\ verifyToken(r.auth) # Null
  /\ r.bodyOk
  /\ r.rating \in {Num(n) : n \in 1..5}
  /\ Len(trim(r.comment)) > 0
  /\ r.getOk
  /\ r.indexOk \/ r.scanOk

HasReviewed(table, userId, itemId) ==
  \E rv \in table : rv.userId = userId /\ rv.itemId = itemId

\* C2: once a create-review request of account a for item i has returned
\* 201, every later well-formed create-review request of a for i, the item
\* still being in the catalog, returns 409 and stores nothing, on the index
\* path and on the scan path.  In steps: a 201 leaves a review of a for i in
\* the table, no step removes a review, and a well-formed request of an
\* account that has a review of the item returns 409.
C2_SecondReviewConflicts ==
  [][/\ reviews \subseteq reviews'
     /\ req'.op = "createReview" /\ resp'.statusCode = 201
          => HasReviewed(reviews', verifyToken(req'.auth).userId, req'.itemId)
     /\ (/\ WellFormedReview(req')
         /\ GetItem(items, "id", req'.itemId) # {}
         /\ HasReviewed(reviews, verifyToken(req'.auth).userId, req'.itemId))
          => resp'.statusCode = 409 /\ reviews' = reviews]_vars

\* A second review refused on the scan path.
C2_Witness ==
  /\ WellFormedReview(req)
  /\ ~req.indexOk
  /\ resp.statusCode = 409
  /\ HasReviewed(reviews, verifyToken(req.auth).userId, req.itemId)

RECURSIVE SumOfRatings(_)
SumOfRatings(set) ==
  IF set = {} THEN 0
  ELSE LET rv == CHOOSE x \in set : TRUE
       IN rv.rating + SumOfRatings(set \ {rv})

\* t tenths is the mean sum / n rounded to one decimal place.
IsRoundedMean(t, sum, n) ==
  /\ 2 * n * t <= 20 * sum + n
  /\ 20 * sum + n < 2 * n * (t + 1)

\* C6: a get-reviews response with status 200 carries totalReviews equal to
\* the number N of stored reviews of the item and averageRating equal to the
\* mean of their ratings rounded to one decimal place (in tenths), and
\* exactly 0 for both when the item has no reviews.
C6_AverageAndTotal ==
  (req.op = "getReviews" /\ resp.statusCode = 200) =>
    LET stored == {rv \in reviews : rv.itemId = req.itemId}
        n == Cardinality(stored)
    IN /\ resp.body.totalReviews = n
       /\ n = 0 => resp.body.averageRating = 0
       /\ n > 0 => IsRoundedMean(resp.body.averageRating,
                                  SumOfRatings(stored), n)

\* Ratings 4, 5 and 5: the mean 4.666... is reported as 4.7.
C6_Witness ==
  /\ req.op = "getReviews"
  /\ resp.statusCode = 200
  /\ resp.body.totalReviews = 3
  /\ resp.body.averageRating = 47

\* C27: every stored review's itemId is the id of a record of the items
\* table; a create-review request that passes the validation and whose
\* point lookup answers and finds no item returns 404 and stores nothing.
C27_ReviewsOfStoredItems ==
  [][/\ \A rv \in reviews' : \E i \in items' : i.id = rv.itemId
     /\ (/\ WellFormedReview(req') /\ req'.itemId # 0
         /\ \A i \in items : i.id # req'.itemId)
          => (resp'.statusCode = 404 /\ reviews' = reviews)]_vars

\* A review of an item that is not in the catalog refused while reviews
\* of catalog items are stored.
C27_Witness ==
  /\ req.op = "createReview"
  /\ req.itemId = 3
  /\ resp.statusCode = 404
  /\ reviews # {}

----------------------------------------------------------------------------
(* Claims about the aggregates of an item, checked under SpecAggregate. *)

\* C28: no write updates a stored aggregate: whatever reviews are created,
\* every item record has averageRating 0 and an empty reviews list, as
\* add-item set them, and create-review leaves the items table alone; a
\* get-reviews response with status 200 carries the number of the reviews
\* stored for the item at the time of the read and the rounded mean of
\* their ratings.
C28_AggregatesOnRead ==
  [][/\ \A i \in items' : i.averageRating = 0 /\ i.reviews = <<>>
     /\ req'.op = "createReview" => items' = items
     /\ (req'.op = "getReviews" /\ resp'.statusCode = 200) =>
          LET stored == {rv \in reviews : rv.itemId = req'.itemId}
              n == Cardinality(stored)
          IN /\ resp'.body.totalReviews = n
             /\ n = 0 => resp'.body.averageRating = 0
             /\ n > 0 => IsRoundedMean(resp'.body.averageRating,
                                        SumOfRatings(stored), n)
             /\ UNCHANGED tables]_vars

\* Ratings 5 and 2 of an item that add-item stored, read as 3.5, while the
\* item record still says 0.
C28_Witness ==
  /\ req.op = "getReviews"
  /\ req.itemId = 3
  /\ resp.statusCode = 200
  /\ resp.body.totalReviews = 2
  /\ resp.body.averageRating = 35
  /\ \E i \in items : i.id = 3 /\ i.averageRating = 0 /\ i.reviews = <<>>

----------------------------------------------------------------------------
(* Claims about the orders handler, checked under SpecOrders. *)

\* What the response must carry as itemDetails of line i of stored order o:
\* the catalog record of its itemId when the lookup succeeds and finds one,
\* null otherwise.
ExpectedDetails(o, i, failing) ==
  LET found == {it \in items : it.id = o.items[i].itemId}
  IN IF <<o.orderId, i>> \notin failing /\ found # {}
     THEN CHOOSE it \in found : TRUE
     ELSE Null

\* ro is stored order o with every line item given its own details.
IsEnriched(ro, o, failing) ==
  /\ WithoutField(ro, "items") = WithoutField(o, "items")
  /\ Len(ro.items) = Len(o.items)
  /\ \A i \in 1..Len(o.items) :
       /\ WithoutField(ro.items[i], "itemDetails") = o.items[i]
       /\ ro.items[i].itemDetails = ExpectedDetails(o, i, failing)

\* C7: a get-orders request under a valid token whose order lookup succeeds
\* on one of its paths is answered 200 with the orders of the account, and
\* the itemDetails of each line item depend on the lookup of that line item
\* alone: the catalog record when it succeeds and finds one, null when the
\* record is absent or the lookup fails.
C7_EnrichmentPerLineItem ==
  (/\ req.op = "getOrders"
   /\ verifyToken(req.auth) # Null
   /\ req.indexOk \/ req.scanOk) =>
    LET mine == {o \in orders : o.userId = verifyToken(req.auth).userId}
    IN /\ resp.statusCode = 200
       /\ Cardinality(resp.body.orders) = Cardinality(mine)
       /\ \A o \in mine :
            \E ro \in resp.body.orders : IsEnriched(ro, o, req.failing)

\* An order of two catalog items: the lookup of one fails and the other is
\* enriched all the same.
C7_Witness ==
  /\ req.op = "getOrders"
  /\ resp.statusCode = 200
  /\ \E ro \in resp.body.orders :
       \E i, j \in 1..Len(ro.items) :
         /\ <<ro.orderId, i>> \in req.failing
         /\ \E it \in items : it.id = ro.items[i].itemId
         /\ ro.items[i].itemDetails = Null
         /\ ro.items[j].itemDetails \in items

\* C15: a get-orders request under the valid token of account u that is
\* answered 200 returns exactly the stored orders whose userId is u, none
\* of another account; and an order that create-order answered 201 for is
\* stored under the userId of its token and never removed, so it is among
\* them.
C15_OwnOrdersOnly ==
  [][/\ orders \subseteq orders'
     /\ (req'.op = "createOrder" /\ resp'.statusCode = 201)
          => /\ resp'.body.order \in orders'
             /\ resp'.body.order.userId = req'.auth.payload.userId
     /\ (/\ req'.op = "getOrders" /\ req'.auth.kind = "valid"
         /\ resp'.statusCode = 200)
          => /\ {ro.orderId : ro \in resp'.body.orders}
                  = {o.orderId : o \in {x \in orders' :
                                          x.userId = req'.auth.payload.userId}}
             /\ \A ro \in resp'.body.orders :
                  ro.userId = req'.auth.payload.userId]_vars

\* Orders returned on the index path while the table also holds an order of
\* another account.
C15_Witness ==
  /\ req.op = "getOrders"
  /\ req.indexOk
  /\ resp.statusCode = 200
  /\ resp.body.orders # {}
  /\ \E o \in orders : o.userId # req.auth.payload.userId

----------------------------------------------------------------------------
(* Claims about the lookups of one get-orders request, checked under       *)
(* SpecParallel.                                                           *)

\* C23: whatever the order in which the line-item lookups of a get-orders
\* request settle, the response is produced only once every lookup has
\* settled, and it is the one response fixed by the orders read and the
\* outcome of each lookup: every order read, every line item at the
\* position it has in the stored order, each with an itemDetails field
\* that holds the outcome of its own lookup.
C23_SameResponseInAnyOrder ==
  [][(inflight # {} /\ inflight' = {}) =>
       \E p \in inflight :
         /\ pendingLookups(p) = {}
         /\ resp'.statusCode = 200
         /\ resp'.body.orders = {enrichOrder(o, p.r.failing) : o \in p.result}
         /\ \A ro \in resp'.body.orders :
              \E o \in p.result :
                /\ o.orderId = ro.orderId
                /\ Len(ro.items) = Len(o.items)
                /\ \A i \in 1..Len(o.items) :
                     /\ "itemDetails" \in DOMAIN ro.items[i]
                     /\ WithoutField(ro.items[i], "itemDetails") = o.items[i]]_vars

\* A response to a request one of whose lookups settled before the lookup
\* of an earlier line item of the same order, one of the two without a
\* catalog record.
C23_Witness ==
  /\ inflight = {}
  /\ overlap
  /\ req.op = "getOrders"
  /\ resp.statusCode = 200
  /\ \E ro \in resp.body.orders :
       /\ Len(ro.items) = 2
       /\ ro.items[1].itemDetails = Null
       /\ ro.items[2].itemDetails \in items

----------------------------------------------------------------------------
(* Claims about the storefronts handler, checked under SpecStore. *)

HasStorefrontFlag(table, userId) ==
  \E u \in table :
    /\ u.userId = userId
    /\ "hasStorefront" \in DOMAIN u
    /\ u.hasStorefront = TRUE

\* C10: when create-storefront returns 201 for an account, the account's
\* hasStorefront flag is true in the store, and no step turns a true
\* hasStorefront flag to anything else.
C10_FlagSetAndKept ==
  [][/\ (req'.op = "createStorefront" /\ resp'.statusCode = 201)
          => HasStorefrontFlag(users', verifyToken(req'.auth).userId)
     /\ \A u \in users :
          HasStorefrontFlag(users, u.userId)
            => HasStorefrontFlag(users', u.userId)]_vars

\* A register request answered after a storefront was created: the flag of
\* the storefront's owner is still true.
C10_Witness ==
  /\ req.op = "register"
  /\ resp.statusCode = 201
  /\ \E f \in storefronts : HasStorefrontFlag(users, f.owner)

\* C11: create-storefront answers 401 to a request without a valid token
\* and 403 to a request whose valid token has a role other than seller, and
\* neither stores a storefront nor updates an account; a storefront is
\* stored only by a create-storefront request under a valid seller token; so
\* the owner of every stored storefront is the id of an account with role
\* seller.
C11_OnlySellersCreate ==
  [][/\ (req'.op = "createStorefront" /\ req'.auth.kind # "valid")
          => /\ resp'.statusCode = 401
             /\ storefronts' = storefronts /\ users' = users
     /\ (/\ req'.op = "createStorefront" /\ req'.auth.kind = "valid"
         /\ req'.auth.payload.role # "seller")
          => /\ resp'.statusCode = 403
             /\ storefronts' = storefronts /\ users' = users
     /\ storefronts' # storefronts
          => /\ req'.op = "createStorefront" /\ req'.auth.kind = "valid"
             /\ req'.auth.payload.role = "seller"
     /\ \A f \in storefronts' :
          \E u \in users' : u.userId = f.owner /\ u.role = "seller"]_vars

\* A buyer refused with 403 while a seller's storefront is stored.
C11_Witness ==
  /\ req.op = "createStorefront"
  /\ req.auth.kind = "valid"
  /\ resp.statusCode = 403
  /\ storefronts # {}

\* C29: an account whose hasStorefront flag is true owns at least one
\* stored storefront; the flag turns true only in a create-storefront
\* request answered 201 that stored a storefront of that account, and (C10)
\* never turns back.
C29_FlagMeansStorefront ==
  [][\A u \in users' :
       /\ HasStorefrontFlag(users', u.userId)
            => \E f \in storefronts' : f.owner = u.userId
       /\ (HasStorefrontFlag(users', u.userId)
           /\ ~HasStorefrontFlag(users, u.userId))
            => /\ req'.op = "createStorefront"
               /\ resp'.statusCode = 201
               /\ \E f \in storefronts' \ storefronts : f.owner = u.userId]_vars

\* A seller whose flag is set by the request just answered, which stored
\* the seller's storefront.
C29_Witness ==
  /\ req.op = "createStorefront"
  /\ resp.statusCode = 201
  /\ HasStorefrontFlag(users, req.auth.payload.userId)
  /\ \E f \in storefronts : f.owner = req.auth.payload.userId

\* C30: every token that register or login issued names a stored account;
\* so a get-profile request under such a token never returns 404, and
\* every record of the users table, after the flag update of
\* create-storefront too, has an email, a name, a role and a password.
C30_TokensNameAccounts ==
  [][/\ \A t \in tokens' : \E u \in users' : u.userId = t.userId
     /\ (req'.op = "profile" /\ req'.auth.payload \in tokens)
          => resp'.statusCode # 404
     /\ \A u \in users' :
          {"email", "name", "role", "password"} \subseteq DOMAIN u]_vars

\* The profile of a seller read under the seller's token after the flag
\* update of create-storefront.
C30_Witness ==
  /\ req.op = "profile"
  /\ req.auth.kind = "valid"
  /\ resp.statusCode = 200
  /\ resp.body.user.hasStorefront
  /\ resp.body.user.userId = req.auth.payload.userId

\* C21: whenever an operation returns an error response (status 400 or
\* above), every table is exactly as it was before the request; a
\* create-storefront request that returns 500 has left no storefront record
\* behind and no account flag changed.
C21_ErrorLeavesStoreUnchanged ==
  [][resp'.statusCode >= 400 => UNCHANGED tables]_vars

----------------------------------------------------------------------------
(* Claims about the items handler, checked under SpecItems. *)

\* The value is a number: a JSON number, or a string all of which is one.
IsNumber(x) ==
  \/ x.t = "num"
  \/ x.t = "str" /\ Len(trim(x.s)) > 0 /\ toNumber(x).t = "num"

\* C13: an add-item request with every required field present (and a put
\* that succeeds) stores an item and returns 201 exactly when its price is
\* a number >= 0, and returns 400 and stores nothing when the price is
\* negative or not a number; every stored item has a price >= 0.
C13_PriceValidation ==
  [][/\ (/\ req'.op = "addItem" /\ req'.bodyOk /\ req'.putOk
         /\ req'.name # "" /\ req'.description # "" /\ req'.category # ""
         /\ req'.storeId # 0 /\ req'.price # Undefined)
          => IF IsNumber(req'.price) /\ toNumber(req'.price).v >= 0
             THEN resp'.statusCode = 201 /\ items' # items
             ELSE resp'.statusCode = 400 /\ items' = items
     /\ \A i \in items' : i.price >= 0]_vars

----------------------------------------------------------------------------
(* Claims about the stored orders, checked under SpecOrders. *)

\* C25: every stored order has status "pending", a non-empty items list, a
\* shipping address, a total greater than 0 and the userId of the token
\* that created it; and a create-order request under a valid token returns
\* 400 and stores nothing when items is missing, not a list or empty, when
\* the shipping address is missing, or when total is missing, not a number
\* or not positive.
C25_StoredOrders ==
  [][/\ \A o \in orders' :
          /\ o.status = "pending"
          /\ Len(o.items) > 0
          /\ o.shippingAddress # ""
          /\ o.total > 0
     /\ (req'.op = "createOrder" /\ resp'.statusCode = 201) =>
          /\ resp'.body.order \in orders'
          /\ resp'.body.order.userId = req'.auth.payload.userId
     /\ (/\ req'.op = "createOrder" /\ req'.bodyOk
         /\ verifyToken(req'.auth) # Null
         /\ \/ req'.items.t # "array"
            \/ Len(req'.items.a) = 0
            \/ req'.shippingAddress = ""
            \/ ~IsNumber(req'.total)
            \/ toNumber(req'.total).v <= 0)
          => (resp'.statusCode = 400 /\ orders' = orders)]_vars

----------------------------------------------------------------------------
(* Claims about the validation of bodies, checked under SpecInput. *)

\* The rating is absent, not a number, below 1 or above 5.
BadRating(x) ==
  \/ x = Undefined
  \/ ~IsNumber(x)
  \/ toNumber(x).v < 1
  \/ toNumber(x).v > 5

\* C14: a create-review request (under a valid token, with a parseable
\* body) whose rating is absent, not a number, below 1 or above 5, or whose
\* comment is empty after trimming, returns 400 and stores nothing; every
\* stored review has a rating in 1..5 and a non-empty trimmed comment.
C14_ReviewValidation ==
  [][/\ (/\ req'.op = "createReview" /\ req'.auth.kind = "valid"
         /\ req'.bodyOk
         /\ BadRating(req'.rating) \/ Len(trim(req'.comment)) = 0)
          => resp'.statusCode = 400 /\ reviews' = reviews
     /\ \A rv \in reviews' :
          /\ rv.rating \in 1..5
          /\ Len(rv.comment) > 0 /\ trim(rv.comment) = rv.comment]_vars

\* The input of the request is malformed, missing or out of range: its body
\* does not parse, or a required field is absent, empty or out of range.
MalformedInput(r) ==
  \/ ~r.bodyOk
  \/ /\ r.op = "register"
     /\ \/ r.name = "" \/ Len(r.email) = 0 \/ Len(r.password) < 6
        \/ r.role \notin {"buyer", "seller"}
  \/ /\ r.op = "login"
     /\ Len(r.email) = 0 \/ Len(r.password) = 0
  \/ /\ r.op = "addItem"
     /\ \/ r.name = "" \/ r.description = "" \/ r.category = ""
        \/ r.storeId = 0 \/ r.price = Undefined
        \/ ~IsNumber(r.price) \/ toNumber(r.price).v < 0
  \/ /\ r.op = "createReview"
     /\ r.itemId = 0 \/ BadRating(r.rating) \/ Len(trim(r.comment)) = 0
  \/ /\ r.op = "createOrder"
     /\ \/ r.items.t # "array" \/ Len(r.items.a) = 0
        \/ r.shippingAddress = "" \/ r.total = Undefined
        \/ ~IsNumber(r.total) \/ toNumber(r.total).v <= 0
  \/ /\ r.op = "createStorefront"
     /\ r.name = "" \/ r.description = "" \/ r.category = ""

\* The request passes the token check of its handler, if it has one.
PassesTokenCheck(r) ==
  /\ r.op \in {"createReview", "createOrder", "createStorefront"}
       => r.auth.kind = "valid"
  /\ r.op = "createStorefront" => r.auth.payload.role = "seller"

\* C17: every request to register, login, add-item, create-review,
\* create-order or create-storefront whose input is malformed, missing or
\* out of range, a body that does not parse included, is answered 400 with
\* an error field, never 500.
C17_MalformedInputIs400 ==
  (/\ req.op \in {"register", "login", "addItem", "createReview",
                   "createOrder", "createStorefront"}
   /\ PassesTokenCheck(req)
   /\ MalformedInput(req))
    => (resp.statusCode = 400 /\ "error" \in DOMAIN resp.body)

----------------------------------------------------------------------------
(* Claims about the token-protected operations, checked under SpecTokens. *)

TokenProtected ==
  {"profile", "createStorefront", "myStorefronts", "createReview",
   "getOrders", "createOrder"}

\* C12: a request to a token-protected operation whose Authorization header
\* is missing, has no Bearer prefix, or carries a token with a bad signature
\* or an expired one is answered 401, whatever its body is (unparseable or
\* invalid bodies included), and writes nothing.
C12_Unauthorized ==
  [][(req'.op \in TokenProtected /\ req'.auth.kind # "valid")
       => (resp'.statusCode = 401 /\ tables' = tables)]_vars

\* An expired token with an unparseable body: 401, not the 500 of the body.
C12_Witness ==
  /\ req.op = "createReview"
  /\ req.auth.kind = "expired"
  /\ ~req.bodyOk
  /\ resp.statusCode = 401

----------------------------------------------------------------------------
(* Claims about the entry points, checked under SpecHttp. *)

\* C16: every response of every handler carries the cross-origin headers,
\* and every OPTIONS request is answered with status 200, whatever its
\* Authorization header, and leaves every table and the tokens as they were.
C16_CorsOnEveryResponse ==
  [][/\ "headers" \in DOMAIN resp'
     /\ resp'.headers = corsHeaders
     /\ req'.method = "OPTIONS" =>
          resp'.statusCode = 200 /\ UNCHANGED <<tables, tokens>>]_vars

----------------------------------------------------------------------------
(* Claims about the items handler of the readme, checked under SpecLegacy. *)

\* C19: when DynamoDB answers, a POST with id k and name n that returned
\* 200 leaves exactly one record under k, with name n; a GET with id k
\* returns 200 with the record stored under k, which carries id k and the
\* name last posted, or with the message "Item not found" when nothing was
\* stored under k; a GET writes nothing; and any method other than GET or
\* POST returns 400 and writes nothing.
C19_PostThenGet ==
  [][LET e == req'
         stored == GetItem(legacy, "id", e.id)
     IN /\ (httpMethodOf(e) = "POST" /\ resp'.statusCode = 200) =>
             /\ e.id # 0
             /\ Cardinality(GetItem(legacy', "id", e.id)) = 1
             /\ \A i \in GetItem(legacy', "id", e.id) : i.name = e.name
             /\ resp'.body.item \in legacy'
        /\ (httpMethodOf(e) = "GET" /\ e.id # 0 /\ e.getOk) =>
             /\ resp'.statusCode = 200
             /\ legacy' = legacy
             /\ IF stored = {}
                THEN resp'.body = [message |-> "Item not found"]
                ELSE resp'.body \in stored /\ resp'.body.id = e.id
        /\ httpMethodOf(e) \notin {"GET", "POST"} =>
             resp'.statusCode = 400 /\ legacy' = legacy]_vars

\* A GET that returned the record posted under its id.
C19_Witness ==
  /\ req.op = "legacy"
  /\ httpMethodOf(req) = "GET"
  /\ resp.statusCode = 200
  /\ "id" \in DOMAIN resp.body
  /\ resp.body.id = req.id
  /\ resp.body.name = "Cup"

\* Every record of the table is still there, unchanged, and every record
\* that is new has a key that no record had.
InsertOnly(old, new, key) ==
  /\ old \subseteq new
  /\ \A q \in new \ old : \A r \in old : r[key] # q[key]

\* The same for the accounts, whose hasStorefront flag may be set.
InsertOrFlag(old, new) ==
  /\ \A r \in old : \E q \in new :
       /\ q.userId = r.userId
       /\ WithoutField(q, "hasStorefront") = WithoutField(r, "hasStorefront")
       /\ r.hasStorefront => q.hasStorefront
  /\ \A q \in new : Cardinality({r \in new : r.userId = q.userId}) = 1

\* C22: across all handlers, a stored record is never removed and never
\* changed after its insert, except that an account's hasStorefront flag
\* may be set: every other write inserts a record under a key that did not
\* exist before.
C22_InsertOnly ==
  [][/\ InsertOrFlag(users, users')
     /\ InsertOnly(storefronts, storefronts', "storeId")
     /\ InsertOnly(items, items', "id")
     /\ InsertOnly(reviews, reviews', "reviewId")
     /\ InsertOnly(orders, orders', "orderId")
     /\ InsertOnly(legacy, legacy', "id")]_vars

----------------------------------------------------------------------------
(* Claims about the lookups, checked under SpecLookup. *)

LookupKeys == 0..(LookupSize + 2)

\* The members of a list.
Members(list) == {list[i] : i \in 1..Len(list)}

\* C3: on every table and for every key value, each lookup that has a scan
\* fallback selects the same records on both paths, namely the records
\* whose key attribute equals the key value (and, for the duplicate check
\* of reviews, whose userId equals the account's), and a request answered
\* on the scan path carries the records the index path would have given.
C3_PathsSelectTheSame ==
  /\ \A k \in LookupKeys :
       /\ OrdersByUserQuery(k) = {o \in orders : o.userId = k}
       /\ OrdersByUserScan(k) = {o \in orders : o.userId = k}
       /\ ItemsByStoreQuery(k) = {i \in items : i.storeId = k}
       /\ ItemsByStoreScan(k) = {i \in items : i.storeId = k}
       /\ ReviewsByItemQuery(k) = {rv \in reviews : rv.itemId = k}
       /\ ReviewsByItemScan(k) = {rv \in reviews : rv.itemId = k}
       /\ StorefrontsByOwnerQuery(k) = {f \in storefronts : f.owner = k}
       /\ StorefrontsByOwnerScan(k) = {f \in storefronts : f.owner = k}
       /\ \A u \in LookupKeys :
            /\ ExistingReviewsQuery(k, u)
                 = {rv \in reviews : rv.itemId = k /\ rv.userId = u}
            /\ ExistingReviewsScan(k, u)
                 = {rv \in reviews : rv.itemId = k /\ rv.userId = u}
  /\ (req.op = "getOrders" /\ ~req.indexOk /\ resp.statusCode = 200) =>
       resp = handleGetOrders([req EXCEPT !.indexOk = TRUE])
  /\ (req.op = "getItems" /\ ~req.indexOk /\ resp.statusCode = 200) =>
       resp = handleGetItems([req EXCEPT !.indexOk = TRUE])
  /\ (req.op = "myStorefronts" /\ ~req.indexOk /\ resp.statusCode = 200) =>
       resp = handleGetMyStorefronts([req EXCEPT !.indexOk = TRUE])
  /\ (req.op = "getReviews" /\ ~req.indexOk /\ resp.statusCode = 200) =>
       Members(resp.body.reviews) = ReviewsByItemQuery(req.itemId)

\* Orders read on the scan path from a table that also holds the orders of
\* another account.
C3_Witness ==
  /\ req.op = "getOrders"
  /\ ~req.indexOk
  /\ resp.statusCode = 200
  /\ resp.body.orders # {}
  /\ \E o \in orders : o.userId # verifyToken(req.auth).userId

----------------------------------------------------------------------------
(* Claims about the order of the reviews, checked under SpecSort. *)

\* C18: the reviews list of a get-reviews response with status 200 is
\* ordered by createdAt descending (each review is at least as new as the
\* one after it) and is a permutation of the reviews stored for the item:
\* it has the same members and the same length.
C18_NewestFirst ==
  (req.op = "getReviews" /\ resp.statusCode = 200) =>
    LET list == resp.body.reviews
        stored == {rv \in reviews : rv.itemId = req.itemId}
    IN /\ \A i \in 1..(Len(list) - 1) :
            list[i].createdAt >= list[i + 1].createdAt
       /\ Members(list) = stored
       /\ Len(list) = Cardinality(stored)

\* Three reviews written at three instants, returned newest first.
C18_Witness ==
  /\ req.op = "getReviews"
  /\ resp.statusCode = 200
  /\ Len(resp.body.reviews) = 3
  /\ resp.body.reviews[1].createdAt > resp.body.reviews[2].createdAt
  /\ resp.body.reviews[2].createdAt > resp.body.reviews[3].createdAt

----------------------------------------------------------------------------
(* Claims about overlapping create-review requests, checked under SpecRace. *)

AtMostOneReviewPerPair ==
  \A a, b \in reviews :
    (a.itemId = b.itemId /\ a.userId = b.userId) => a = b

\* C5 as stated: in every reachable state, after any sequence and any
\* interleaving of create-review requests, the reviews table holds at most
\* one review for each (itemId, userId) pair.
C5_AtMostOneReviewPerPair == AtMostOneReviewPerPair

\* C5, amended: as long as no create-review request passed its duplicate
\* check while another one was between its check and its insert, the
\* reviews table holds at most one review for each (itemId, userId) pair.
C5_AtMostOneWithoutOverlap == ~overlap => AtMostOneReviewPerPair

\* Two reviews stored one request after the other, and a third request of
\* one of the two accounts refused.
C5_Witness ==
  /\ ~overlap
  /\ inflight = {}
  /\ Cardinality(reviews) = 2
  /\ req.op = "createReview"
  /\ resp.statusCode = 409

----------------------------------------------------------------------------
(* Claims about overlapping register requests, checked under               *)
(* SpecRegisterRace.                                                       *)

SharedEmail ==
  \E a, b \in users : a # b /\ toLowerCase(a.email) = toLowerCase(b.email)

\* C20: two stored accounts share one lowercase email only after a register
\* request passed its email lookup while another one was between its lookup
\* and its insert; the witness shows that such a state is reached, by two
\* requests that both passed the lookup and both wrote.
C20_SharedEmailOnlyByOverlap == SharedEmail => overlap

\* Two accounts with one email, both inserted with 201, the second one by
\* the request just answered.
C20_Witness ==
  /\ SharedEmail
  /\ overlap
  /\ inflight = {}
  /\ Cardinality(users) = 2
  /\ req.op = "register"
  /\ resp.statusCode = 201

====
